---------------------------- MODULE Spec2Model ----------------------------
(***************************************************************************)
(* Model of the allscreenshots Go SDK client: the operation facade, the    *)
(* request executor (Client.requestRaw) with its retry loop and backoff,   *)
(* and the error taxonomy with its classification predicates.              *)
(*                                                                         *)
(* Strings the code inspects byte by byte (URLs, identifiers, names) are    *)
(* sequences of bytes, each written as a one-character string, so that Len *)
(* is Go's len.  Durations are integers in an arbitrary unit.  A Go        *)
(* pointer is a record with the field isNil.                               *)
(***************************************************************************)
EXTENDS Integers, Sequences, FiniteSets, TLC

VARIABLES
    client,     \* the constructed Client (immutable configuration)
    op,         \* the facade operation the caller invokes
    input,      \* the caller's argument record (owned by the caller)
    ctx,        \* the call's context: "live", "canceled", "deadline"
    pc,         \* position of the call: start, loop, waiting, sending, done
    attempt,    \* requestRaw's loop variable
    lastErr,    \* requestRaw's lastErr
    envelope,   \* method, path, body and handler mode handed to requestRaw
    timer,      \* the pending backoff select: wait duration and chosen case
    result,     \* what the call returned to the caller
    requests,   \* history: requests handed to the transport that went out
    doCalls,    \* history: calls of httpClient.Do
    waits,      \* history: backoff waits that ran to completion
    outcomes,   \* history: summary of the outcomes of the Do calls so far
    cancelled,  \* history: snapshot taken when the cancellation fired
    calls,      \* concurrent calls on the one client: position, result, history
    frames,     \* the locals attempt and lastErr of each running requestRaw
    opts,       \* history: the options NewClient has applied, in order
    env,        \* the ALLSCREENSHOTS_API_KEY environment variable at construction
    wire,       \* history: the distinct requests handed to the transport
    given,      \* history: the caller's argument record as it was when passed
    bodyReader, \* requestRaw's bodyReader: the serialized body and whether it was read
    callerHandle \* the *http.Client object the caller owns and may hand to clients

vars == <<client, op, input, ctx, pc, attempt, lastErr, envelope, timer,
          result, requests, doCalls, waits, outcomes, cancelled, calls, frames,
          opts, env, wire, given, bodyReader, callerHandle>>

---------------------------------------------------------------------------
(* Bounds of the model *)

MaxRetriesBound == 2    \* largest maxRetries a modelled client is given
JitterSteps == 2        \* rand.Float64() takes the values j/JitterSteps, j < JitterSteps
AttemptBound == 4       \* largest attempt number calculateBackoff is applied to on its own
WaitMinBound == 8       \* largest retryWaitMin of the backoff specification
WaitMaxBound == 24      \* largest retryWaitMax of the backoff specification

---------------------------------------------------------------------------
(* Strings *)

HasPrefix(s, p) == Len(s) >= Len(p) /\ SubSeq(s, 1, Len(p)) = p

HttpPrefix == <<"h", "t", "t", "p", ":", "/", "/">>
HttpsPrefix == <<"h", "t", "t", "p", "s", ":", "/", "/">>

UrlHttp == HttpPrefix \o <<"x">>
UrlHttps == HttpsPrefix \o <<"x">>
UrlFtp == <<"f", "t", "p", ":", "/", "/", "x">>
UrlNoSlash == <<"h", "t", "t", "p", ":", "/", "x">>
EmptyStr == <<>>

\* a string of n bytes
Chars(n) == [i \in 1..n |-> "a"]

---------------------------------------------------------------------------
(* Error taxonomy *)

NoErr == [kind |-> "nil"]

\* Field is the field name; an indexed name, fmt.Sprintf("urls[%d].url", i),
\* keeps its index i (0-based), every other name has index -1.
ValidationError(field, index, message) ==
    [kind |-> "Validation", Field |-> [name |-> field, index |-> index],
     Message |-> message]

APIError(status, code, message, details) ==
    [kind |-> "API", StatusCode |-> status, Code |-> code,
     Message |-> message, Details |-> details]

NetworkError(message, cause) ==
    [kind |-> "Network", Message |-> message, Cause |-> cause]

TimeoutError(message, cause) ==
    [kind |-> "Timeout", Message |-> message, Cause |-> cause]

RetryError(attempts, last) ==
    [kind |-> "Retry", Attempts |-> attempts, LastErr |-> last]

\* ctx.Err(): context.Canceled or context.DeadlineExceeded, returned as is
CtxErr(c) == [kind |-> "context", err |-> c]

\* fmt.Errorf("allscreenshots: ...: %w", err) and the decoder's / reader's own errors
PlainError(message) == [kind |-> "plain", Message |-> message]

TypedKinds == {"Validation", "API", "Network", "Timeout", "Retry"}

AsAPIErrorUnwrapping(err) ==
    IF err.kind = "API" THEN [apiErr |-> err, ok |-> TRUE]
    ELSE IF err.kind = "Retry" /\ err.LastErr.kind = "API"
         THEN [apiErr |-> err.LastErr, ok |-> TRUE]
         ELSE [apiErr |-> NoErr, ok |-> FALSE]

\* a type assertion on the error itself (line 35), with no unwrapping
AsAPIError(err) ==
    IF err.kind = "API" THEN [apiErr |-> err, ok |-> TRUE]
    ELSE [apiErr |-> NoErr, ok |-> FALSE]

IsAPIError(err) == err.kind = "API"
IsValidationError(err) == err.kind = "Validation"
IsNetworkError(err) == err.kind = "Network"
IsTimeoutError(err) == err.kind = "Timeout"
IsRetryError(err) == err.kind = "Retry"

IsBadRequest(err) ==
    LET a == AsAPIError(err) IN IF a.ok THEN a.apiErr.StatusCode = 400 ELSE FALSE

IsUnauthorized(err) ==
    LET a == AsAPIError(err) IN IF a.ok THEN a.apiErr.StatusCode = 401 ELSE FALSE

IsForbiddenChecks401(err) ==
    LET a == AsAPIError(err) IN IF a.ok THEN a.apiErr.StatusCode = 401 ELSE FALSE

IsForbidden(err) ==
    LET a == AsAPIError(err) IN IF a.ok THEN a.apiErr.StatusCode = 403 ELSE FALSE

IsNotFound(err) ==
    LET a == AsAPIError(err) IN IF a.ok THEN a.apiErr.StatusCode = 404 ELSE FALSE

IsRateLimited(err) ==
    LET a == AsAPIError(err) IN IF a.ok THEN a.apiErr.StatusCode = 429 ELSE FALSE

IsServerError(err) ==
    LET a == AsAPIError(err)
    IN  IF a.ok THEN a.apiErr.StatusCode >= 500 /\ a.apiErr.StatusCode < 600
        ELSE FALSE

---------------------------------------------------------------------------
(* Request records of the facade (pkg/allscreenshots/models.go) *)

Nil == [isNil |-> TRUE]

ViewportConfig(w, h, dsf) ==
    [isNil |-> FALSE, Width |-> w, Height |-> h, DeviceScaleFactor |-> dsf]

ScreenshotRequest(url, quality, delay, timeout, viewport) ==
    [isNil |-> FALSE, URL |-> url, Quality |-> quality, Delay |-> delay,
     Timeout |-> timeout, Viewport |-> viewport]

BulkURLRequest(url) == [URL |-> url]

BulkRequest(urls) == [isNil |-> FALSE, URLs |-> urls]

CaptureItem(url) == [URL |-> url]

\* Variants is kept by its length, the only thing the client reads of it
ComposeRequest(captures, url, nVariants, async) ==
    [isNil |-> FALSE, Captures |-> captures, URL |-> url,
     Variants |-> nVariants, Async |-> async]

CreateScheduleRequest(name, url, schedule, retentionDays) ==
    [isNil |-> FALSE, Name |-> name, URL |-> url, Schedule |-> schedule,
     RetentionDays |-> retentionDays]

UpdateScheduleRequest(name) == [isNil |-> FALSE, Name |-> name]

ComposeLayoutPreviewParams(layout, imageCount) ==
    [isNil |-> FALSE, Layout |-> layout, ImageCount |-> imageCount]

---------------------------------------------------------------------------
(* Validation (part_001 lines 759-872) *)

urlSchemeOk(u) == HasPrefix(u, HttpPrefix) \/ HasPrefix(u, HttpsPrefix)

\* the height test copied from the width test with v.Width left in it
validateViewportHeightReadsWidth(v) ==
    IF v.Width # 0 /\ (v.Width < 100 \/ v.Width > 4096)
    THEN ValidationError("viewport.width", -1, "width must be between 100 and 4096")
    ELSE IF v.Width # 0 /\ (v.Width < 100 \/ v.Width > 4096)
    THEN ValidationError("viewport.height", -1, "height must be between 100 and 4096")
    ELSE IF v.DeviceScaleFactor # 0 /\ (v.DeviceScaleFactor < 1 \/ v.DeviceScaleFactor > 3)
    THEN ValidationError("viewport.deviceScaleFactor", -1,
                         "deviceScaleFactor must be between 1 and 3")
    ELSE NoErr

validateViewport(v) ==
    IF v.Width # 0 /\ (v.Width < 100 \/ v.Width > 4096)
    THEN ValidationError("viewport.width", -1, "width must be between 100 and 4096")
    ELSE IF v.Height # 0 /\ (v.Height < 100 \/ v.Height > 4096)
    THEN ValidationError("viewport.height", -1, "height must be between 100 and 4096")
    ELSE IF v.DeviceScaleFactor # 0 /\ (v.DeviceScaleFactor < 1 \/ v.DeviceScaleFactor > 3)
    THEN ValidationError("viewport.deviceScaleFactor", -1,
                         "deviceScaleFactor must be between 1 and 3")
    ELSE NoErr

\* the quality rule tested before the URL rules
validateScreenshotRequestQualityFirst(req) ==
    IF req.isNil
    THEN ValidationError("request", -1, "request cannot be nil")
    ELSE IF req.Quality # 0 /\ (req.Quality < 1 \/ req.Quality > 100)
    THEN ValidationError("quality", -1, "quality must be between 1 and 100")
    ELSE IF req.URL = EmptyStr
    THEN ValidationError("url", -1, "URL is required")
    ELSE IF ~urlSchemeOk(req.URL)
    THEN ValidationError("url", -1, "URL must start with http:// or https://")
    ELSE IF req.Delay # 0 /\ (req.Delay < 0 \/ req.Delay > 30000)
    THEN ValidationError("delay", -1, "delay must be between 0 and 30000")
    ELSE IF req.Timeout # 0 /\ (req.Timeout < 1000 \/ req.Timeout > 60000)
    THEN ValidationError("timeout", -1, "timeout must be between 1000 and 60000")
    ELSE IF ~req.Viewport.isNil
    THEN validateViewport(req.Viewport)
    ELSE NoErr

validateScreenshotRequest(req) ==
    IF req.isNil
    THEN ValidationError("request", -1, "request cannot be nil")
    ELSE IF req.URL = EmptyStr
    THEN ValidationError("url", -1, "URL is required")
    ELSE IF ~urlSchemeOk(req.URL)
    THEN ValidationError("url", -1, "URL must start with http:// or https://")
    ELSE IF req.Quality # 0 /\ (req.Quality < 1 \/ req.Quality > 100)
    THEN ValidationError("quality", -1, "quality must be between 1 and 100")
    ELSE IF req.Delay # 0 /\ (req.Delay < 0 \/ req.Delay > 30000)
    THEN ValidationError("delay", -1, "delay must be between 0 and 30000")
    ELSE IF req.Timeout # 0 /\ (req.Timeout < 1000 \/ req.Timeout > 60000)
    THEN ValidationError("timeout", -1, "timeout must be between 1000 and 60000")
    ELSE IF ~req.Viewport.isNil
    THEN validateViewport(req.Viewport)
    ELSE NoErr

\* the loop of lines 837-844 without its early return: the last entry wins
firstUrlErrorNamesLast(items, field) ==
    LET bad == {i \in 1..Len(items) : items[i].URL = EmptyStr \/ ~urlSchemeOk(items[i].URL)}
    IN  IF bad = {} THEN NoErr
        ELSE LET i == CHOOSE k \in bad : \A m \in bad : k >= m
             IN  IF items[i].URL = EmptyStr
                 THEN ValidationError(field, i - 1, "URL is required")
                 ELSE ValidationError(field, i - 1,
                                      "URL must start with http:// or https://")

\* the error of the first entry (in index order) that has one, or NoErr
firstUrlError(items, field) ==
    LET bad == {i \in 1..Len(items) : items[i].URL = EmptyStr \/ ~urlSchemeOk(items[i].URL)}
    IN  IF bad = {} THEN NoErr
        ELSE LET i == CHOOSE k \in bad : \A m \in bad : k <= m
             IN  IF items[i].URL = EmptyStr
                 THEN ValidationError(field, i - 1, "URL is required")
                 ELSE ValidationError(field, i - 1,
                                      "URL must start with http:// or https://")

\* the limit of line 809 tested with >= in place of >
validateBulkRequestLimitOffByOne(req) ==
    IF req.isNil
    THEN ValidationError("request", -1, "request cannot be nil")
    ELSE IF Len(req.URLs) = 0
    THEN ValidationError("urls", -1, "at least one URL is required")
    ELSE IF Len(req.URLs) >= 100
    THEN ValidationError("urls", -1, "maximum 100 URLs allowed")
    ELSE firstUrlError(req.URLs, "urls[%d].url")

validateBulkRequest(req) ==
    IF req.isNil
    THEN ValidationError("request", -1, "request cannot be nil")
    ELSE IF Len(req.URLs) = 0
    THEN ValidationError("urls", -1, "at least one URL is required")
    ELSE IF Len(req.URLs) > 100
    THEN ValidationError("urls", -1, "maximum 100 URLs allowed")
    ELSE firstUrlError(req.URLs, "urls[%d].url")

\* the test of line 828 with || in place of &&
validateComposeRequestEitherMissing(req) ==
    IF req.isNil
    THEN ValidationError("request", -1, "request cannot be nil")
    ELSE IF Len(req.Captures) = 0 \/ req.URL = EmptyStr
    THEN ValidationError("captures", -1, "either captures or url is required")
    ELSE IF Len(req.Captures) > 20
    THEN ValidationError("captures", -1, "maximum 20 captures allowed")
    ELSE IF req.Variants > 20
    THEN ValidationError("variants", -1, "maximum 20 variants allowed")
    ELSE firstUrlError(req.Captures, "captures[%d].url")

validateComposeRequest(req) ==
    IF req.isNil
    THEN ValidationError("request", -1, "request cannot be nil")
    ELSE IF Len(req.Captures) = 0 /\ req.URL = EmptyStr
    THEN ValidationError("captures", -1, "either captures or url is required")
    ELSE IF Len(req.Captures) > 20
    THEN ValidationError("captures", -1, "maximum 20 captures allowed")
    ELSE IF req.Variants > 20
    THEN ValidationError("variants", -1, "maximum 20 variants allowed")
    ELSE firstUrlError(req.Captures, "captures[%d].url")

\* the limit of line 856 tested with >= in place of >
validateCreateScheduleRequestNameOffByOne(req) ==
    IF req.isNil
    THEN ValidationError("request", -1, "request cannot be nil")
    ELSE IF req.Name = EmptyStr
    THEN ValidationError("name", -1, "name is required")
    ELSE IF Len(req.Name) >= 255
    THEN ValidationError("name", -1, "name must be at most 255 characters")
    ELSE IF req.URL = EmptyStr
    THEN ValidationError("url", -1, "URL is required")
    ELSE IF ~urlSchemeOk(req.URL)
    THEN ValidationError("url", -1, "URL must start with http:// or https://")
    ELSE IF req.Schedule = EmptyStr
    THEN ValidationError("schedule", -1, "schedule is required")
    ELSE IF req.RetentionDays # 0 /\ (req.RetentionDays < 1 \/ req.RetentionDays > 365)
    THEN ValidationError("retentionDays", -1, "retentionDays must be between 1 and 365")
    ELSE NoErr

validateCreateScheduleRequest(req) ==
    IF req.isNil
    THEN ValidationError("request", -1, "request cannot be nil")
    ELSE IF req.Name = EmptyStr
    THEN ValidationError("name", -1, "name is required")
    ELSE IF Len(req.Name) > 255
    THEN ValidationError("name", -1, "name must be at most 255 characters")
    ELSE IF req.URL = EmptyStr
    THEN ValidationError("url", -1, "URL is required")
    ELSE IF ~urlSchemeOk(req.URL)
    THEN ValidationError("url", -1, "URL must start with http:// or https://")
    ELSE IF req.Schedule = EmptyStr
    THEN ValidationError("schedule", -1, "schedule is required")
    ELSE IF req.RetentionDays # 0 /\ (req.RetentionDays < 1 \/ req.RetentionDays > 365)
    THEN ValidationError("retentionDays", -1, "retentionDays must be between 1 and 365")
    ELSE NoErr

---------------------------------------------------------------------------
(* Client configuration (part_001 lines 19-127) *)

DefaultBaseURL == HttpsPrefix \o <<"a">>
DefaultMaxRetries == 3

TrimSuffix(s, suffix) ==
    IF Len(s) >= Len(suffix) /\ SubSeq(s, Len(s) - Len(suffix) + 1, Len(s)) = suffix
    THEN SubSeq(s, 1, Len(s) - Len(suffix))
    ELSE s

WithAPIKey(c, apiKey) == [c EXCEPT !.apiKey = apiKey]

\* the base URL stored as given
WithBaseURLUntrimmed(c, baseURL) == [c EXCEPT !.baseURL = baseURL]

WithBaseURL(c, baseURL) == [c EXCEPT !.baseURL = TrimSuffix(baseURL, <<"/">>)]
WithMaxRetries(c, maxRetries) == [c EXCEPT !.maxRetries = maxRetries]
WithRetryWait(c, min, max) == [c EXCEPT !.retryWaitMin = min, !.retryWaitMax = max]
WithUserAgent(c, ua) == [c EXCEPT !.userAgent = ua]

\* a *http.Client: nil or not, who allocated it, and its Timeout field
NoHandle == [isNil |-> TRUE, owner |-> "caller", Timeout |-> 0]
Handle(owner, timeout) == [isNil |-> FALSE, owner |-> owner, Timeout |-> timeout]

\* WithTimeout writes through the handle the client holds at that moment
WithTimeout(c, timeout) == [c EXCEPT !.httpClient.Timeout = timeout]
WithHTTPClient(c, httpClient) == [c EXCEPT !.httpClient = httpClient]

\* the user agent of line 33
userAgent == "allscreenshots-sdk-go/1.0.0"

\* the client NewClient builds from its defaults; e is os.Getenv(EnvAPIKey).
\* One second is 8 units: DefaultRetryWaitMin 1 s, DefaultRetryWaitMax 30 s,
\* DefaultTimeout 120 s
DefaultClient(e) ==
    [baseURL |-> DefaultBaseURL, apiKey |-> e, maxRetries |-> DefaultMaxRetries,
     retryWaitMin |-> 8, retryWaitMax |-> 240,
     httpClient |-> Handle("sdk", 960), userAgent |-> userAgent]

\* values handed to the options in this model
ApiKeys == {"", "key"}
BaseURLInputs == {DefaultBaseURL, HttpsPrefix \o <<"x", "/">>, <<":", "/", "/", "x">>}
MaxRetriesInputs == -1..MaxRetriesBound
RetryWaitInputs == {<<0, 0>>, <<8, 20>>}

\* NewClient(WithAPIKey(k), WithBaseURL(b), WithMaxRetries(n), WithRetryWait(w[1], w[2]))
NewClient(k, b, n, w) ==
    WithRetryWait(WithMaxRetries(WithBaseURL(WithAPIKey(DefaultClient(""), k), b), n),
                  w[1], w[2])

Clients ==
    {NewClient(k, b, n, w) : k \in ApiKeys, b \in BaseURLInputs,
                             n \in MaxRetriesInputs, w \in RetryWaitInputs}

\* a ClientOption: the option function's name and the arguments it closed over
Option(name, str, url, n, m, handle) ==
    [name |-> name, str |-> str, url |-> url, n |-> n, m |-> m, handle |-> handle]

OptAPIKey(apiKey) == Option("WithAPIKey", apiKey, EmptyStr, 0, 0, NoHandle)
OptBaseURL(baseURL) == Option("WithBaseURL", "", baseURL, 0, 0, NoHandle)
OptTimeout(timeout) == Option("WithTimeout", "", EmptyStr, timeout, 0, NoHandle)
OptHTTPClient(httpClient) == Option("WithHTTPClient", "", EmptyStr, 0, 0, httpClient)
OptMaxRetries(maxRetries) == Option("WithMaxRetries", "", EmptyStr, maxRetries, 0, NoHandle)
OptRetryWait(min, max) == Option("WithRetryWait", "", EmptyStr, min, max, NoHandle)
OptUserAgent(ua) == Option("WithUserAgent", ua, EmptyStr, 0, 0, NoHandle)

\* line 73: opt(c)
opt(c, o) ==
    CASE o.name = "WithAPIKey" -> WithAPIKey(c, o.str)
      [] o.name = "WithBaseURL" -> WithBaseURL(c, o.url)
      [] o.name = "WithTimeout" -> WithTimeout(c, o.n)
      [] o.name = "WithHTTPClient" -> WithHTTPClient(c, o.handle)
      [] o.name = "WithMaxRetries" -> WithMaxRetries(c, o.n)
      [] o.name = "WithRetryWait" -> WithRetryWait(c, o.n, o.m)
      [] o.name = "WithUserAgent" -> WithUserAgent(c, o.str)

\* line 96 dereferences c.httpClient: with a nil handle the option panics
optPanics(c, o) == o.name = "WithTimeout" /\ c.httpClient.isNil

\* The handle an option carries is a pointer: what the client holds after
\* WithHTTPClient is the caller's object h in its present state
deref(o, h) ==
    IF o.name = "WithHTTPClient" /\ ~o.handle.isNil /\ o.handle.owner = "caller"
    THEN [o EXCEPT !.handle = h]
    ELSE o

\* line 96 writes through the pointer the client holds: when that is the
\* caller's object, the caller's object is what changes
writeThrough(c, o, h) ==
    IF o.name = "WithTimeout" /\ ~c.httpClient.isNil /\ c.httpClient.owner = "caller"
    THEN [h EXCEPT !.Timeout = o.n]
    ELSE h

\* lines 72-74: the options applied in order (none of os panics)
RECURSIVE applyAll(_, _)
applyAll(c, os) == IF os = <<>> THEN c ELSE applyAll(opt(c, Head(os)), Tail(os))

\* the options of NewClient(k, b, n, w)
ClientOptions(k, b, n, w) ==
    <<OptAPIKey(k), OptBaseURL(b), OptMaxRetries(n), OptRetryWait(w[1], w[2])>>

\* the option lists of the clients the calls are checked on: those of Clients,
\* and two clients with a user agent of their own (one of them empty)
CallOptions ==
    {ClientOptions(k, b, n, w) : k \in ApiKeys, b \in BaseURLInputs,
                                 n \in MaxRetriesInputs, w \in RetryWaitInputs}
    \cup {<<OptAPIKey("key"), OptUserAgent(ua), OptMaxRetries(1), OptRetryWait(8, 20)>> :
              ua \in {"custom", ""}}

---------------------------------------------------------------------------
(* Facade operations (part_001 lines 293-757) *)

\* arg: the shape of the argument; mode: how the 2xx body is handled
OpTable ==
    [Screenshot |-> [arg |-> "screenshot", method |-> "POST", path |-> "/v1/screenshots", suffix |-> "", hasBody |-> TRUE, mode |-> "binary"],
     ScreenshotAsync |-> [arg |-> "screenshot", method |-> "POST", path |-> "/v1/screenshots/async", suffix |-> "", hasBody |-> TRUE, mode |-> "json"],
     ListJobs |-> [arg |-> "none", method |-> "GET", path |-> "/v1/screenshots/jobs", suffix |-> "", hasBody |-> FALSE, mode |-> "json"],
     GetJob |-> [arg |-> "id", method |-> "GET", path |-> "/v1/screenshots/jobs/", suffix |-> "", hasBody |-> FALSE, mode |-> "json"],
     GetJobResult |-> [arg |-> "id", method |-> "GET", path |-> "/v1/screenshots/jobs/", suffix |-> "/result", hasBody |-> FALSE, mode |-> "binary"],
     CancelJob |-> [arg |-> "id", method |-> "POST", path |-> "/v1/screenshots/jobs/", suffix |-> "/cancel", hasBody |-> FALSE, mode |-> "json"],
     CreateBulkJob |-> [arg |-> "bulk", method |-> "POST", path |-> "/v1/screenshots/bulk", suffix |-> "", hasBody |-> TRUE, mode |-> "json"],
     ListBulkJobs |-> [arg |-> "none", method |-> "GET", path |-> "/v1/screenshots/bulk", suffix |-> "", hasBody |-> FALSE, mode |-> "json"],
     GetBulkJob |-> [arg |-> "id", method |-> "GET", path |-> "/v1/screenshots/bulk/", suffix |-> "", hasBody |-> FALSE, mode |-> "json"],
     CancelBulkJob |-> [arg |-> "id", method |-> "POST", path |-> "/v1/screenshots/bulk/", suffix |-> "/cancel", hasBody |-> FALSE, mode |-> "json"],
     Compose |-> [arg |-> "compose", method |-> "POST", path |-> "/v1/screenshots/compose", suffix |-> "", hasBody |-> TRUE, mode |-> "json"],
     ComposeAsync |-> [arg |-> "compose", method |-> "POST", path |-> "/v1/screenshots/compose", suffix |-> "", hasBody |-> TRUE, mode |-> "json"],
     GetComposeLayoutPreview |-> [arg |-> "params", method |-> "GET", path |-> "/v1/screenshots/compose/preview", suffix |-> "", hasBody |-> FALSE, mode |-> "json"],
     ListComposeJobs |-> [arg |-> "none", method |-> "GET", path |-> "/v1/screenshots/compose/jobs", suffix |-> "", hasBody |-> FALSE, mode |-> "json"],
     GetComposeJob |-> [arg |-> "id", method |-> "GET", path |-> "/v1/screenshots/compose/jobs/", suffix |-> "", hasBody |-> FALSE, mode |-> "json"],
     CreateSchedule |-> [arg |-> "schedule", method |-> "POST", path |-> "/v1/schedules", suffix |-> "", hasBody |-> TRUE, mode |-> "json"],
     ListSchedules |-> [arg |-> "none", method |-> "GET", path |-> "/v1/schedules", suffix |-> "", hasBody |-> FALSE, mode |-> "json"],
     GetSchedule |-> [arg |-> "id", method |-> "GET", path |-> "/v1/schedules/", suffix |-> "", hasBody |-> FALSE, mode |-> "json"],
     UpdateSchedule |-> [arg |-> "idreq", method |-> "PUT", path |-> "/v1/schedules/", suffix |-> "", hasBody |-> TRUE, mode |-> "json"],
     DeleteSchedule |-> [arg |-> "id", method |-> "DELETE", path |-> "/v1/schedules/", suffix |-> "", hasBody |-> FALSE, mode |-> "discard"],
     PauseSchedule |-> [arg |-> "id", method |-> "POST", path |-> "/v1/schedules/", suffix |-> "/pause", hasBody |-> FALSE, mode |-> "json"],
     ResumeSchedule |-> [arg |-> "id", method |-> "POST", path |-> "/v1/schedules/", suffix |-> "/resume", hasBody |-> FALSE, mode |-> "json"],
     TriggerSchedule |-> [arg |-> "id", method |-> "POST", path |-> "/v1/schedules/", suffix |-> "/trigger", hasBody |-> FALSE, mode |-> "json"],
     GetScheduleHistory |-> [arg |-> "idlimit", method |-> "GET", path |-> "/v1/schedules/", suffix |-> "/history", hasBody |-> FALSE, mode |-> "json"],
     GetUsage |-> [arg |-> "none", method |-> "GET", path |-> "/v1/usage", suffix |-> "", hasBody |-> FALSE, mode |-> "json"],
     GetQuotaStatus |-> [arg |-> "none", method |-> "GET", path |-> "/v1/usage/quota", suffix |-> "", hasBody |-> FALSE, mode |-> "json"]]

Ops == DOMAIN OpTable

IdOps == {o \in Ops : OpTable[o].arg \in {"id", "idreq", "idlimit"}}

---------------------------------------------------------------------------
(* Arguments the caller passes in this model, by argument shape *)

JobId == <<"j">>

\* records that break any combination of the rules: each field is within its
\* rule or outside it, the viewport absent or breaking its rules from the
\* first, the second or the third on (the one record that breaks none is
\* left out)
ScreenshotRuleInputs ==
    {ScreenshotRequest(u, q, d, t, v) :
        u \in {UrlHttp, UrlFtp}, q \in {50, 101}, d \in {0, 30001}, t \in {0, 999},
        v \in {Nil, ViewportConfig(99, 99, 4), ViewportConfig(100, 99, 4),
               ViewportConfig(100, 100, 4)}}
    \ {ScreenshotRequest(UrlHttp, 50, 0, 0, Nil)}

ScreenshotInputs ==
    {Nil,
     ScreenshotRequest(UrlHttps, 0, 0, 0, Nil),
     ScreenshotRequest(EmptyStr, 0, 0, 0, Nil),
     ScreenshotRequest(UrlFtp, 101, 0, 0, Nil),
     ScreenshotRequest(UrlHttp, 101, 0, 0, Nil),
     ScreenshotRequest(UrlHttp, 80, 0, 0, ViewportConfig(99, 0, 0))}
    \cup ScreenshotRuleInputs

BulkInputs ==
    {Nil,
     BulkRequest(<<BulkURLRequest(UrlHttps)>>),
     BulkRequest(<<>>),
     BulkRequest(<<BulkURLRequest(UrlHttp), BulkURLRequest(UrlFtp)>>),
     BulkRequest([i \in 1..101 |-> BulkURLRequest(UrlHttp)])}

ComposeInputs ==
    {Nil,
     ComposeRequest(<<CaptureItem(UrlHttps)>>, EmptyStr, 0, FALSE),
     ComposeRequest(<<>>, UrlHttps, 2, FALSE),
     ComposeRequest(<<>>, EmptyStr, 0, FALSE),
     ComposeRequest(<<CaptureItem(UrlHttp), CaptureItem(EmptyStr)>>, EmptyStr, 0, FALSE),
     ComposeRequest(<<>>, UrlHttps, 21, FALSE),
     ComposeRequest(<<CaptureItem(UrlHttps)>>, EmptyStr, 21, FALSE),
     ComposeRequest(<<CaptureItem(UrlFtp), CaptureItem(EmptyStr)>>, EmptyStr, 0, FALSE),
     ComposeRequest([i \in 1..21 |-> CaptureItem(UrlHttp)], EmptyStr, 0, FALSE),
     ComposeRequest([i \in 1..21 |-> CaptureItem(IF i = 1 THEN EmptyStr ELSE UrlHttp)],
                    EmptyStr, 0, FALSE)}

ScheduleInputs ==
    {Nil,
     CreateScheduleRequest(Chars(3), UrlHttps, Chars(2), 0),
     CreateScheduleRequest(EmptyStr, UrlHttps, Chars(2), 0),
     CreateScheduleRequest(Chars(256), UrlHttps, Chars(2), 0),
     CreateScheduleRequest(Chars(3), UrlNoSlash, Chars(2), 0),
     CreateScheduleRequest(Chars(3), UrlHttps, Chars(2), 366)}

Inputs(o) ==
    LET a == OpTable[o].arg
    IN  CASE a = "screenshot" -> ScreenshotInputs
          [] a = "bulk" -> BulkInputs
          [] a = "compose" -> ComposeInputs
          [] a = "schedule" -> ScheduleInputs
          [] a = "id" -> {[id |-> EmptyStr], [id |-> JobId]}
          [] a = "idreq" -> {[id |-> EmptyStr, req |-> UpdateScheduleRequest(Chars(1))],
                             [id |-> EmptyStr, req |-> Nil],
                             [id |-> JobId, req |-> UpdateScheduleRequest(Chars(1))],
                             [id |-> JobId, req |-> Nil]}
          [] a = "idlimit" -> {[id |-> EmptyStr, limit |-> 5], [id |-> JobId, limit |-> 5]}
          [] a = "params" -> {Nil, ComposeLayoutPreviewParams(Chars(1), 2)}
          [] OTHER -> {[none |-> TRUE]}

---------------------------------------------------------------------------
(* The facade: validation, then the request envelope *)

idField(o) == IF o = "GetComposeJob" THEN "jobId" ELSE "id"

idMessage(o) ==
    IF o \in {"GetJob", "GetJobResult", "CancelJob", "GetComposeJob"}
    THEN "job ID is required"
    ELSE IF o \in {"GetBulkJob", "CancelBulkJob"}
    THEN "bulk job ID is required"
    ELSE "schedule ID is required"

\* the facade without the id == "" tests
argErrorNoIdCheck(o, in) ==
    LET a == OpTable[o].arg
    IN  CASE a = "screenshot" -> validateScreenshotRequest(in)
          [] a = "bulk" -> validateBulkRequest(in)
          [] a = "compose" -> validateComposeRequest(in)
          [] a = "schedule" -> validateCreateScheduleRequest(in)
          [] OTHER -> NoErr

\* the facade's own check of its argument, NoErr when the argument passes
argError(o, in) ==
    LET a == OpTable[o].arg
    IN  CASE a = "screenshot" -> validateScreenshotRequest(in)
          [] a = "bulk" -> validateBulkRequest(in)
          [] a = "compose" -> validateComposeRequest(in)
          [] a = "schedule" -> validateCreateScheduleRequest(in)
          [] a \in {"id", "idreq", "idlimit"} ->
                IF in.id = EmptyStr
                THEN ValidationError(idField(o), -1, idMessage(o))
                ELSE NoErr
          [] OTHER -> NoErr

\* GetComposeLayoutPreview reads params.Layout without a nil check
facadePanics(o, in) == OpTable[o].arg = "params" /\ in.isNil

\* the caller's record once the facade has handed it to the executor
facadeInput(o, in) ==
    IF o = "ComposeAsync" THEN [in EXCEPT !.Async = TRUE] ELSE in

\* url.PathEscape on the characters of this model: "/" is escaped
PathEscape(id) ==
    LET esc[i \in 0..Len(id)] ==
            IF i = 0 THEN <<>>
            ELSE esc[i - 1] \o (IF id[i] = "/" THEN <<"%", "2", "F">> ELSE <<id[i]>>)
    IN  esc[Len(id)]

buildEnvelope(o, in) ==
    LET t == OpTable[o]
    IN  [method |-> t.method,
         path |-> [prefix |-> t.path,
                   id |-> IF o \in IdOps THEN PathEscape(in.id) ELSE EmptyStr,
                   suffix |-> t.suffix,
                   query |-> IF t.arg = "idlimit" /\ in.limit > 0 THEN in.limit
                             ELSE IF t.arg = "params" /\ in.ImageCount > 0 THEN in.ImageCount
                             ELSE 0],
         hasBody |-> t.hasBody,
         mode |-> t.mode]

NoEnvelope == [method |-> "", path |-> [prefix |-> "", id |-> EmptyStr, suffix |-> "", query |-> 0],
               hasBody |-> FALSE, mode |-> ""]

---------------------------------------------------------------------------
(* The executor's helpers (part_001 lines 228-291) *)

\* 2^n for n >= 0
Pow2(n) == LET p[i \in 0..n] == IF i = 0 THEN 1 ELSE 2 * p[i - 1] IN p[n]

\* the exponent the comment of line 230 names, "min * 2^attempt"
calculateBackoffExponentN(c, n, j) ==
    LET backoff == c.retryWaitMin * Pow2(n)
        den == 4 * JitterSteps
        num == backoff * (den + j)
    IN  IF num > c.retryWaitMax * den THEN c.retryWaitMax ELSE num \div den

\* a jitter of up to 250% of the backoff instead of 25%
calculateBackoffWideJitter(c, n, j) ==
    LET backoff == c.retryWaitMin * Pow2(n - 1)
        den == 4 * JitterSteps
        num == backoff * (den + 10 * j)
    IN  IF num > c.retryWaitMax * den THEN c.retryWaitMax ELSE num \div den

\* calculateBackoff with rand.Float64() = j / JitterSteps: the float value
\* backoff * (1 + 0.25 * j / JitterSteps), capped, then truncated by time.Duration
calculateBackoff(c, n, j) ==
    LET backoff == c.retryWaitMin * Pow2(n - 1)
        den == 4 * JitterSteps
        num == backoff * (den + j)
    IN  IF num > c.retryWaitMax * den THEN c.retryWaitMax ELSE num \div den

\* http.StatusText for the statuses of this model ("" for an unknown code)
StatusText(status) ==
    CASE status = 301 -> "Moved Permanently"
      [] status = 400 -> "Bad Request"
      [] status = 401 -> "Unauthorized"
      [] status = 403 -> "Forbidden"
      [] status = 404 -> "Not Found"
      [] status = 429 -> "Too Many Requests"
      [] status = 500 -> "Internal Server Error"
      [] status = 502 -> "Bad Gateway"
      [] status = 503 -> "Service Unavailable"
      [] status = 504 -> "Gateway Timeout"
      [] OTHER -> ""

\* a response body: whether it decodes as the JSON envelope, and its fields
UnparseableBody == [json |-> FALSE, error |-> "", code |-> "", message |-> "", details |-> ""]
EnvelopeBody(error, code, message, details) ==
    [json |-> TRUE, error |-> error, code |-> code, message |-> message, details |-> details]

\* the envelope's error field taking precedence over its message field
parseErrorResponseErrorFirst(resp) ==
    IF resp.body.json
    THEN APIError(resp.StatusCode,
                  resp.body.code,
                  IF resp.body.error # "" THEN resp.body.error
                  ELSE IF resp.body.message # "" THEN resp.body.message
                  ELSE StatusText(resp.StatusCode),
                  resp.body.details)
    ELSE APIError(resp.StatusCode, "", StatusText(resp.StatusCode), "")

parseErrorResponse(resp) ==
    IF resp.body.json
    THEN APIError(resp.StatusCode,
                  resp.body.code,
                  IF resp.body.message # "" THEN resp.body.message
                  ELSE IF resp.body.error # "" THEN resp.body.error
                  ELSE StatusText(resp.StatusCode),
                  resp.body.details)
    ELSE APIError(resp.StatusCode, "", StatusText(resp.StatusCode), "")

\* a transport error: whether os.IsTimeout holds of it, and which of the
\* phrases isRetryableError looks for its text contains
TransportError(name, timeout, phrases) ==
    [name |-> name, timeout |-> timeout, phrases |-> phrases]

ErrConnRefused == TransportError("dial tcp: connect: connection refused", FALSE, {"connection refused"})
ErrConnReset == TransportError("read: connection reset by peer", FALSE, {"connection reset"})
ErrNoSuchHost == TransportError("dial tcp: lookup: no such host", FALSE, {"no such host"})
ErrClientTimeout == TransportError("Client.Timeout exceeded while awaiting headers", TRUE, {})
ErrTLS == TransportError("tls: handshake failure", FALSE, {})
ErrCtxCanceled == TransportError("context canceled", FALSE, {})
ErrCtxDeadline == TransportError("context deadline exceeded", TRUE, {})

\* every transport error taken as retryable
isRetryableErrorAlways(err) == TRUE

isRetryableError(err) ==
    \/ err.timeout
    \/ "connection refused" \in err.phrases
    \/ "connection reset" \in err.phrases
    \/ "no such host" \in err.phrases
    \/ "timeout" \in err.phrases

\* every 5xx status taken as retried
isRetryableStatusAny5xx(status) == status = 429 \/ (status >= 500 /\ status < 600)

isRetryableStatus(status) == status = 429 \/ status = 502 \/ status = 503 \/ status = 504

isSuccessStatusOnly200(status) == status = 200

\* the test of line 207
isSuccessStatus(status) == status >= 200 /\ status < 300

loopConditionOffByOne(c, a) == a < c.maxRetries

loopConditionOneTooMany(c, a) == a <= c.maxRetries + 1

\* the condition of the for loop of line 168
loopCondition(c, a) == a <= c.maxRetries

credentialNeverMissing(c) == FALSE

\* the test of line 152
credentialMissing(c) == c.apiKey = ""

\* url.Parse of baseURL + path inside http.NewRequestWithContext: a URL that
\* begins with ":" has no protocol scheme and is refused
urlParses(u) == ~(Len(u) > 0 /\ u[1] = ":")

---------------------------------------------------------------------------
(* The environment of a call in this model *)

Statuses == {200, 204, 301, 400, 401, 403, 404, 429, 500, 502, 503, 504, 599, 600}

ErrorBodies == {UnparseableBody, EnvelopeBody("e", "c", "m", "d")}

TransportFailures == {ErrConnRefused, ErrConnReset, ErrNoSuchHost, ErrClientTimeout, ErrTLS}

ctxFailure(c) == IF c = "deadline" THEN ErrCtxDeadline ELSE ErrCtxCanceled

---------------------------------------------------------------------------
(* State *)

NoResult == [kind |-> "none"]
Panic == [kind |-> "panic"]
Success(payload) == [kind |-> "ok", payload |-> payload]

\* the value the facade hands to the executor as body: the request record
\* (UpdateSchedule: the record next to the identifier)
bodyOf(o, in) == IF OpTable[o].arg = "idreq" THEN in.req ELSE in

\* json.Marshal of a request record: the text "null" for a nil pointer,
\* otherwise the object with the record's fields as they are at that moment
Marshal(v) == IF v.isNil THEN <<"null">> ELSE <<v>>

\* a bodyReader: nil (no body), or a bytes.Reader over data, read or not
NoReader == [present |-> FALSE, read |-> FALSE, data |-> <<>>]

\* lines 157-163: bytes.NewReader(jsonData) when body != nil
NewReader(o, in) ==
    IF OpTable[o].hasBody
    THEN [present |-> TRUE, read |-> FALSE, data |-> Marshal(bodyOf(o, in))]
    ELSE NoReader

\* a retry that goes on with the reader of the attempt before
resetReaderKeepsOld(o, in, r) == r

\* lines 178-182: the body is serialized again for the retry
resetReader(o, in, r) == IF OpTable[o].hasBody THEN NewReader(o, in) ELSE r

NoTimer == [wait |-> 0, selected |-> "idle"]
NoOutcome == [type |-> "none"]
NoOutcomes == [count |-> 0, priorRetryableStatus |-> TRUE, last |-> NoOutcome]
NotCancelled == [fired |-> FALSE]
NoCalls == <<>>
NoWire == {}
NoFrames == <<>>

Init ==
    /\ env = ""
    /\ opts \in CallOptions
    /\ client = applyAll(DefaultClient(env), opts)
    /\ wire = NoWire
    /\ bodyReader = NoReader
    /\ callerHandle = Handle("caller", 0)
    /\ op \in Ops
    /\ input \in Inputs(op)
    /\ given = input
    /\ ctx = "live"
    /\ pc = "start"
    /\ attempt = 0
    /\ lastErr = NoErr
    /\ envelope = NoEnvelope
    /\ timer = NoTimer
    /\ result = NoResult
    /\ requests = 0
    /\ doCalls = 0
    /\ waits = 0
    /\ outcomes = NoOutcomes
    /\ cancelled = NotCancelled
    /\ calls = NoCalls
    /\ frames = NoFrames

\* the call returns res to the caller
Finish(res) == pc' = "done" /\ result' = res

\* the statuses the documentation lists as retried (README "Retry behavior")
RetriedStatuses == {429, 502, 503, 504}

\* the outcome o of a Do call enters the history; priorRetryableStatus says
\* that every outcome before the last one was a response with a retried status
Record(o) ==
    outcomes' = [count |-> outcomes.count + 1,
                 priorRetryableStatus |->
                     /\ outcomes.priorRetryableStatus
                     /\ \/ outcomes.last.type = "none"
                        \/ /\ outcomes.last.type = "response"
                           /\ outcomes.last.status \in RetriedStatuses,
                 last |-> o]

---------------------------------------------------------------------------
(* Actions *)

\* A facade method up to the loop of requestRaw: the argument check, the
\* credential check (lines 152-154) and the first json.Marshal, which cannot
\* fail on the facade's request records
Invoke ==
    /\ pc = "start"
    /\ IF facadePanics(op, input)
       THEN Finish(Panic) /\ UNCHANGED <<input, attempt, lastErr, envelope>>
       ELSE IF argError(op, input) # NoErr
       THEN Finish(argError(op, input)) /\ UNCHANGED <<input, attempt, lastErr, envelope>>
       ELSE /\ input' = facadeInput(op, input)
            /\ IF credentialMissing(client)
               THEN /\ Finish(ValidationError("apiKey", -1, "API key is required"))
                    /\ UNCHANGED <<attempt, lastErr, envelope>>
               ELSE /\ pc' = "loop"
                    /\ attempt' = 0
                    /\ lastErr' = NoErr
                    /\ envelope' = buildEnvelope(op, input)
                    /\ UNCHANGED result
    /\ bodyReader' = IF pc' = "loop" THEN NewReader(op, input') ELSE bodyReader
    /\ UNCHANGED <<given, callerHandle, opts, env, wire, calls, frames, client, op, ctx, timer, requests, doCalls, waits, outcomes, cancelled>>

\* a header that names the content type on every request
setHeadersContentTypeAlways(c, e) ==
    {<<"X-API-Key", c.apiKey>>, <<"Accept", "application/json">>,
     <<"Content-Type", "application/json">>}
    \cup (IF c.userAgent # "" THEN {<<"User-Agent", c.userAgent>>} ELSE {})

\* the request header as the transport writes it: the four Set calls of lines
\* 190-195, where a User-Agent set to the empty string writes no header line
setHeaders(c, e) ==
    {<<"X-API-Key", c.apiKey>>, <<"Accept", "application/json">>}
    \cup (IF c.userAgent # "" THEN {<<"User-Agent", c.userAgent>>} ELSE {})
    \cup (IF e.hasBody THEN {<<"Content-Type", "application/json">>} ELSE {})

\* lines 165 and 185-195: the request of one attempt.  reqURL is c.baseURL
\* followed by the path; head is the base with the first byte of the path,
\* which is "/" in every path literal of the facade
newRequest(c, e, r) ==
    [method |-> e.method,
     url |-> [head |-> c.baseURL \o <<"/">>, path |-> e.path],
     header |-> setHeaders(c, e),
     hasBody |-> e.hasBody,
     \* the transport reads what is left in the reader: nothing once it was read
     body |-> IF r.present /\ ~r.read THEN r.data ELSE <<>>]

\* http.NewRequestWithContext and the call of httpClient.Do (lines 185-197);
\* a Do entered with a context that is already done sends nothing, and a Do
\* on a nil *http.Client panics
Send(r) ==
    IF ~urlParses(client.baseURL)
    THEN /\ Finish(PlainError("failed to create request"))
         /\ bodyReader' = r
         /\ UNCHANGED <<doCalls, requests, wire>>
    ELSE IF client.httpClient.isNil
    THEN /\ Finish(Panic)
         /\ bodyReader' = r
         /\ UNCHANGED <<doCalls, requests, wire>>
    ELSE /\ pc' = "sending"
         /\ doCalls' = doCalls + 1
         /\ requests' = IF ctx = "live" THEN requests + 1 ELSE requests
         /\ wire' = IF ctx = "live" THEN wire \cup {newRequest(client, envelope, r)} ELSE wire
         /\ bodyReader' = IF ctx = "live" THEN [r EXCEPT !.read = r.present] ELSE r
         /\ UNCHANGED result

\* the select of lines 172-176 is entered: a case that is ready is taken (any of
\* them when both are), otherwise the call blocks
EnterSelect(wait) ==
    LET ready == (IF ctx # "live" THEN {"done"} ELSE {}) \cup
                 (IF wait <= 0 THEN {"timer"} ELSE {})
    IN  /\ pc' = "waiting"
        /\ IF ready = {}
           THEN timer' = [wait |-> wait, selected |-> "none"]
           ELSE \E r \in ready : timer' = [wait |-> wait, selected |-> r]

\* One pass through the head of the for loop (lines 168-171)
\* a loop that waits before the first attempt as well
LoopStepWaitsFirst ==
    /\ pc = "loop"
    /\ IF ~loopCondition(client, attempt)
       THEN /\ Finish(RetryError(client.maxRetries + 1, lastErr))
            /\ UNCHANGED <<timer, requests, doCalls, wire, bodyReader>>
       ELSE IF attempt >= 0 /\ waits < attempt + 1
       THEN /\ \E j \in 0..(JitterSteps - 1) :
                    EnterSelect(calculateBackoff(client, attempt + 1, j))
            /\ UNCHANGED <<result, requests, doCalls, wire, bodyReader>>
       ELSE Send(bodyReader) /\ UNCHANGED timer
    /\ UNCHANGED <<given, callerHandle, opts, env, calls, frames, client, op, input, ctx, attempt, lastErr, envelope, waits,
                   outcomes, cancelled>>

LoopStep ==
    /\ pc = "loop"
    /\ IF ~loopCondition(client, attempt)
       THEN /\ Finish(RetryError(client.maxRetries + 1, lastErr))
            /\ UNCHANGED <<timer, requests, doCalls, wire, bodyReader>>
       ELSE IF attempt > 0
       THEN /\ \E j \in 0..(JitterSteps - 1) :
                    EnterSelect(calculateBackoff(client, attempt, j))
            /\ UNCHANGED <<result, requests, doCalls, wire, bodyReader>>
       ELSE Send(bodyReader) /\ UNCHANGED timer
    /\ UNCHANGED <<given, callerHandle, opts, env, calls, frames, client, op, input, ctx, attempt, lastErr, envelope, waits,
                   outcomes, cancelled>>

\* The caller's context is cancelled (k = "canceled") or its deadline passes
\* (k = "deadline"); a select blocked on ctx.Done() is woken with that case
Cancel(k) ==
    /\ ctx = "live"
    /\ pc # "done"
    /\ ctx' = k
    /\ timer' = IF pc = "waiting" /\ timer.selected = "none"
                THEN [timer EXCEPT !.selected = "done"]
                ELSE timer
    /\ cancelled' = [fired |-> TRUE,
                     inWait |-> pc = "waiting" /\ timer.selected = "none",
                     at |-> pc, requests |-> requests, doCalls |-> doCalls,
                     waits |-> waits]
    /\ UNCHANGED <<given, callerHandle, bodyReader, opts, env, wire, calls, frames, client, op, input, pc, attempt, lastErr, envelope, result,
                   requests, doCalls, waits, outcomes>>

\* time.After(wait) delivers: a select blocked on it is woken with that case
TimerFires ==
    /\ pc = "waiting"
    /\ timer.selected = "none"
    /\ timer' = [timer EXCEPT !.selected = "timer"]
    /\ UNCHANGED <<given, callerHandle, bodyReader, opts, env, wire, calls, frames, client, op, input, ctx, pc, attempt, lastErr, envelope, result,
                   requests, doCalls, waits, outcomes, cancelled>>

\* the wait as a plain time.Sleep(wait): the Done case is never taken
WakeSleeps ==
    /\ pc = "waiting"
    /\ timer.selected \in {"done", "timer"}
    /\ waits' = waits + 1 /\ Send(resetReader(op, input, bodyReader))
    /\ timer' = NoTimer
    /\ UNCHANGED <<given, callerHandle, opts, env, calls, frames, client, op, input, ctx, attempt, lastErr, envelope, outcomes,
                   cancelled>>

\* The call resumes after the select (lines 173-183)
Wake ==
    /\ pc = "waiting"
    /\ timer.selected \in {"done", "timer"}
    /\ IF timer.selected = "done"
       THEN Finish(CtxErr(ctx)) /\ UNCHANGED <<waits, requests, doCalls, wire, bodyReader>>
       ELSE waits' = waits + 1 /\ Send(resetReader(op, input, bodyReader))
    /\ timer' = NoTimer
    /\ UNCHANGED <<given, callerHandle, opts, env, calls, frames, client, op, input, ctx, attempt, lastErr, envelope, outcomes,
                   cancelled>>

\* a handler that drops the error of the decoder or reader
handlerDropsError(mode, readable) ==
    IF mode = "discard" THEN Success("none")
    ELSE IF mode = "binary" THEN Success("bytes")
    ELSE Success("decoded")

\* the response handler of request / requestBinary (lines 130-148)
handler(mode, readable) ==
    IF mode = "discard" THEN Success("none")
    ELSE IF mode = "binary"
    THEN IF readable THEN Success("bytes") ELSE PlainError("read failed")
    ELSE IF readable THEN Success("decoded") ELSE PlainError("decode failed")

\* httpClient.Do returns a response (lines 206-222); readable says whether the
\* handler can read or decode the body of a 2xx response
Respond(status, body, readable) ==
    /\ pc = "sending"
    /\ ctx = "live"
    /\ LET resp == [StatusCode |-> status, body |-> body]
           apiErr == parseErrorResponse(resp)
       IN  IF isSuccessStatus(status)
           THEN /\ Finish(handler(envelope.mode, readable))
                /\ Record([type |-> "response", status |-> status,
                           readable |-> readable, err |-> NoErr])
                /\ UNCHANGED <<attempt, lastErr>>
           ELSE /\ Record([type |-> "response", status |-> status,
                           readable |-> FALSE, err |-> apiErr])
                /\ IF isRetryableStatus(status)
                   THEN /\ lastErr' = apiErr
                        /\ attempt' = attempt + 1
                        /\ pc' = "loop"
                        /\ UNCHANGED result
                   ELSE Finish(apiErr) /\ UNCHANGED <<attempt, lastErr>>
    /\ UNCHANGED <<given, callerHandle, bodyReader, opts, env, wire, calls, frames, client, op, input, ctx, envelope, timer, requests, doCalls,
                   waits, cancelled>>

\* httpClient.Do returns an error (lines 198-204): a failure of the transport
\* while the context is live, the context's own error once it is done
TransportFail(err) ==
    /\ pc = "sending"
    /\ IF ctx = "live" THEN err \in TransportFailures ELSE err = ctxFailure(ctx)
    /\ lastErr' = NetworkError("request failed", err)
    /\ Record([type |-> "failure", status |-> 0, readable |-> FALSE,
               err |-> NetworkError("request failed", err)])
    /\ IF isRetryableError(err)
       THEN attempt' = attempt + 1 /\ pc' = "loop" /\ UNCHANGED result
       ELSE Finish(NetworkError("request failed", err)) /\ UNCHANGED attempt
    /\ UNCHANGED <<given, callerHandle, bodyReader, opts, env, wire, calls, frames, client, op, input, ctx, envelope, timer, requests, doCalls,
                   waits, cancelled>>

Next ==
    \/ Invoke
    \/ LoopStep
    \/ \E k \in {"canceled", "deadline"} : Cancel(k)
    \/ TimerFires
    \/ Wake
    \/ \E s \in Statuses, b \in ErrorBodies, r \in BOOLEAN : Respond(s, b, r)
    \/ \E e \in TransportFailures \cup {ErrCtxCanceled, ErrCtxDeadline} : TransportFail(e)

Spec == Init /\ [][Next]_vars

\* httpClient.Do comes back, with a response or with an error
Exchange ==
    \/ \E s \in Statuses, b \in ErrorBodies, r \in BOOLEAN : Respond(s, b, r)
    \/ \E e \in TransportFailures \cup {ErrCtxCanceled, ErrCtxDeadline} : TransportFail(e)

\* The call under the assumptions that the goroutine running it keeps being
\* scheduled (Invoke, LoopStep, Wake), that every HTTP exchange completes and
\* that every timer of a backoff wait fires; the caller's context may be
\* cancelled or not
Fairness ==
    /\ WF_vars(Invoke)
    /\ WF_vars(LoopStep)
    /\ WF_vars(Wake)
    /\ WF_vars(TimerFires)
    /\ WF_vars(Exchange)

\* one operation of each response-handling mode, with and without a body
LiveOps == {"Screenshot", "GetUsage", "UpdateSchedule", "DeleteSchedule"}

LiveInit ==
    /\ env = ""
    /\ opts \in CallOptions
    /\ client = applyAll(DefaultClient(env), opts)
    /\ wire = NoWire
    /\ bodyReader = NoReader
    /\ callerHandle = Handle("caller", 0)
    /\ op \in LiveOps
    /\ input \in Inputs(op)
    /\ given = input
    /\ ctx = "live"
    /\ pc = "start"
    /\ attempt = 0
    /\ lastErr = NoErr
    /\ envelope = NoEnvelope
    /\ timer = NoTimer
    /\ result = NoResult
    /\ requests = 0
    /\ doCalls = 0
    /\ waits = 0
    /\ outcomes = NoOutcomes
    /\ cancelled = NotCancelled
    /\ calls = NoCalls
    /\ frames = NoFrames

SpecLive == LiveInit /\ [][Next]_vars /\ Fairness

---------------------------------------------------------------------------
(* calculateBackoff on its own: every retry wait pair WithRetryWait accepts   *)
(* (it checks nothing) up to the bounds, every attempt number, every jitter  *)

BackoffClients ==
    {WithRetryWait(DefaultClient("key"), min, max) :
        min \in 0..WaitMinBound, max \in 0..WaitMaxBound}

BackoffInit ==
    /\ client \in BackoffClients
    /\ env = "key"
    /\ opts = <<OptRetryWait(client.retryWaitMin, client.retryWaitMax)>>
    /\ wire = NoWire
    /\ bodyReader = NoReader
    /\ callerHandle = Handle("caller", 0)
    /\ op = "ListJobs"
    /\ input = [none |-> TRUE]
    /\ given = input
    /\ ctx = "live"
    /\ pc = "loop"
    /\ attempt \in 1..AttemptBound
    /\ lastErr = NoErr
    /\ envelope = buildEnvelope("ListJobs", [none |-> TRUE])
    /\ timer = NoTimer
    /\ result = NoResult
    /\ requests = 0
    /\ doCalls = 0
    /\ waits = 0
    /\ outcomes = NoOutcomes
    /\ cancelled = NotCancelled
    /\ calls = NoCalls
    /\ frames = NoFrames

\* line 171: backoff := c.calculateBackoff(attempt), with the jitter draw j
Backoff ==
    /\ pc = "loop"
    /\ \E j \in 0..(JitterSteps - 1) :
           timer' = [wait |-> calculateBackoff(client, attempt, j), selected |-> "none"]
    /\ pc' = "waiting"
    /\ UNCHANGED <<given, callerHandle, bodyReader, opts, env, wire, calls, frames, client, op, input, ctx, attempt, lastErr, envelope, result,
                   requests, doCalls, waits, outcomes, cancelled>>

SpecBackoff == BackoffInit /\ [][Backoff]_vars

----------------------------------------------------------------------------
(* NewClient step by step: the defaults, then the options one at a time in
   the order given, then the return of the client, followed by the first
   call on it up to its first request. *)

MaxOptions == 3

EnvKeys == {"", "env"}

Options ==
    {OptAPIKey(""), OptAPIKey("key"),
     OptBaseURL(HttpsPrefix \o <<"x", "/">>), OptBaseURL(HttpsPrefix \o <<"x", "/", "/">>),
     OptTimeout(480),
     OptHTTPClient(NoHandle), OptHTTPClient(Handle("caller", 0)),
     OptMaxRetries(-1), OptMaxRetries(0),
     OptRetryWait(240, 8), OptRetryWait(16, 80),
     OptUserAgent("custom")}

\* lines 62-70
ConstructInit ==
    /\ env \in EnvKeys
    /\ opts = <<>>
    /\ client = DefaultClient(env)
    /\ wire = NoWire
    /\ bodyReader = NoReader
    /\ callerHandle = Handle("caller", 0)
    /\ op = "GetUsage"
    /\ input = [none |-> TRUE]
    /\ given = input
    /\ ctx = "live"
    /\ pc = "constructing"
    /\ attempt = 0
    /\ lastErr = NoErr
    /\ envelope = NoEnvelope
    /\ timer = NoTimer
    /\ result = NoResult
    /\ requests = 0
    /\ doCalls = 0
    /\ waits = 0
    /\ outcomes = NoOutcomes
    /\ cancelled = NotCancelled
    /\ calls = NoCalls
    /\ frames = NoFrames

\* lines 72-74: the next option is applied; a panic in it ends NewClient
ApplyOption(o) ==
    /\ pc = "constructing"
    /\ Len(opts) < MaxOptions
    /\ opts' = Append(opts, o)
    /\ IF optPanics(client, o)
       THEN pc' = "crashed" /\ result' = Panic /\ UNCHANGED <<client, callerHandle>>
       ELSE /\ client' = opt(client, deref(o, callerHandle))
            /\ callerHandle' = writeThrough(client, o, callerHandle)
            /\ UNCHANGED <<pc, result>>
    /\ UNCHANGED <<given, bodyReader, env, wire, calls, frames, op, input, ctx, attempt, lastErr, envelope, timer,
                   requests, doCalls, waits, outcomes, cancelled>>

\* line 76: return c; the caller goes on to its first call
Return ==
    /\ pc = "constructing"
    /\ pc' = "start"
    /\ UNCHANGED <<given, callerHandle, bodyReader, opts, env, wire, calls, frames, client, op, input, ctx, attempt, lastErr,
                   envelope, timer, result, requests, doCalls, waits, outcomes, cancelled>>

ConstructNext ==
    \/ \E o \in Options : ApplyOption(o)
    \/ Return
    \/ Invoke
    \/ LoopStep

SpecConstruct == ConstructInit /\ [][ConstructNext]_vars

----------------------------------------------------------------------------
(* parseErrorResponse on its own: one non-2xx response, held in input, is
   parsed once.  A body that is not the JSON envelope (empty, not JSON, or a
   JSON value whose fields have the wrong types) makes Decode return an error;
   the fields of such a body are what a partial decode may have left in
   errResp, which line 259 never copies. *)

ParseStatuses == {s \in Statuses : ~isSuccessStatus(s)}

ParseBodies ==
    {[json |-> j, error |-> e, code |-> c, message |-> m, details |-> d] :
        j \in BOOLEAN, e \in {"", "e"}, c \in {"", "c"}, m \in {"", "m"}, d \in {"", "d"}}

ParseInit ==
    /\ client = DefaultClient("key")
    /\ env = "key"
    /\ opts = <<>>
    /\ wire = NoWire
    /\ bodyReader = NoReader
    /\ callerHandle = Handle("caller", 0)
    /\ op = "ListJobs"
    /\ input \in {[StatusCode |-> s, body |-> b] : s \in ParseStatuses, b \in ParseBodies}
    /\ given = input
    /\ ctx = "live"
    /\ pc = "sending"
    /\ attempt = 0
    /\ lastErr = NoErr
    /\ envelope = buildEnvelope("ListJobs", [none |-> TRUE])
    /\ timer = NoTimer
    /\ result = NoResult
    /\ requests = 1
    /\ doCalls = 1
    /\ waits = 0
    /\ outcomes = NoOutcomes
    /\ cancelled = NotCancelled
    /\ calls = NoCalls
    /\ frames = NoFrames

\* line 214: apiErr := c.parseErrorResponse(resp)
Parse ==
    /\ pc = "sending"
    /\ result' = parseErrorResponse(input)
    /\ pc' = "done"
    /\ UNCHANGED <<given, callerHandle, bodyReader, opts, env, wire, calls, frames, client, op, input, ctx, attempt, lastErr, envelope, timer,
                   requests, doCalls, waits, outcomes, cancelled>>

SpecParse == ParseInit /\ [][Parse]_vars

---------------------------------------------------------------------------
(* The validators on their own (part_001 lines 759-872), on records around *)
(* every limit they test                                                    *)

UrlInputs == {EmptyStr, UrlHttp, UrlHttps, UrlFtp, UrlNoSlash}

ViewportInputs ==
    {Nil} \cup {ViewportConfig(w, h, d) : w \in {0, 99, 100, 4096, 4097},
                                          h \in {0, 99, 100, 4096, 4097},
                                          d \in {-1, 0, 1, 3, 4}}

ScreenshotRecords ==
    {Nil} \cup {ScreenshotRequest(u, q, d, t, v) :
                   u \in UrlInputs, q \in {-1, 0, 1, 100, 101},
                   d \in {-1, 0, 30000, 30001}, t \in {0, 999, 1000, 60000, 60001},
                   v \in ViewportInputs}

\* the lists of at most n URLs among urls
UrlLists(urls, n) == UNION {[1..k -> urls] : k \in 0..n}

\* a list of n good URLs, and the same with the URLs at bad replaced
LongList(n, bad) == [i \in 1..n |-> IF i \in bad THEN UrlFtp ELSE UrlHttp]

\* the entries of a bulk request, the captures of a compose request
BulkURLs(l) == [i \in 1..Len(l) |-> BulkURLRequest(l[i])]
Captures(l) == [i \in 1..Len(l) |-> CaptureItem(l[i])]

BulkRecords ==
    {Nil} \cup {BulkRequest(BulkURLs(l)) :
                   l \in UrlLists({EmptyStr, UrlHttp, UrlFtp}, 3)
                         \cup {LongList(n, bad) :
                                  n \in {100, 101}, bad \in {{}, {100}, {7, 100}}}}

ComposeRecords ==
    {Nil} \cup {ComposeRequest(Captures(l), u, n, FALSE) :
                   l \in UrlLists({EmptyStr, UrlHttp, UrlFtp}, 2)
                         \cup {LongList(k, bad) :
                                  k \in {20, 21}, bad \in {{}, {20}, {3, 20}}},
                   u \in {EmptyStr, UrlHttps, UrlFtp},
                   n \in {0, 1, 20, 21}}

ScheduleRecords ==
    {Nil} \cup {CreateScheduleRequest(n, u, s, r) :
                   n \in {EmptyStr, Chars(1), Chars(255), Chars(256)},
                   u \in UrlInputs, s \in {EmptyStr, Chars(2)},
                   r \in {-1, 0, 1, 365, 366}}

Records(o) ==
    LET a == OpTable[o].arg
    IN  CASE a = "screenshot" -> ScreenshotRecords
          [] a = "bulk" -> BulkRecords
          [] a = "compose" -> ComposeRecords
          [] a = "schedule" -> ScheduleRecords

ValidationInit ==
    /\ client = DefaultClient("key")
    /\ env = "key"
    /\ opts = <<>>
    /\ wire = NoWire
    /\ bodyReader = NoReader
    /\ callerHandle = Handle("caller", 0)
    /\ op \in {"Screenshot", "CreateBulkJob", "Compose", "CreateSchedule"}
    /\ input \in Records(op)
    /\ given = input
    /\ ctx = "live"
    /\ pc = "start"
    /\ attempt = 0
    /\ lastErr = NoErr
    /\ envelope = NoEnvelope
    /\ timer = NoTimer
    /\ result = NoResult
    /\ requests = 0
    /\ doCalls = 0
    /\ waits = 0
    /\ outcomes = NoOutcomes
    /\ cancelled = NotCancelled
    /\ calls = NoCalls
    /\ frames = NoFrames

\* the validator of the operation is applied to the record; result is the
\* error it returns, NoErr for nil
Validate ==
    /\ pc = "start"
    /\ Finish(argError(op, input))
    /\ UNCHANGED <<given, callerHandle, bodyReader, opts, env, wire, calls, frames, client, op, input, ctx, attempt, lastErr, envelope, timer,
                   requests, doCalls, waits, outcomes, cancelled>>

SpecValidation == ValidationInit /\ [][Validate]_vars

---------------------------------------------------------------------------
(* Several goroutines calling one shared Client (part_001 lines 151-226).   *)
(* The Client is the only state the calls share; attempt and lastErr are    *)
(* locals of requestRaw and live in the frame of the invocation.  Each call  *)
(* is ListJobs with its own context; a step is one stretch of requestRaw     *)
(* between two points where it reads the client or waits for the outside.    *)

CallIds == {"a", "b"}

\* one frame for all invocations, as if attempt and lastErr were fields of
\* the Client
frameShared(k) == "a"

\* the frame that holds the locals of the invocation k (lines 167-168)
frame(k) == k

ConcurrentClients ==
    {NewClient(k, b, n, <<8, 20>>) :
        k \in ApiKeys, b \in {DefaultBaseURL, <<":", "/", "/", "x">>},
        n \in MaxRetriesInputs}

ConcurrentOptions ==
    {ClientOptions(k, b, n, <<8, 20>>) :
        k \in ApiKeys, b \in {DefaultBaseURL, <<":", "/", "/", "x">>},
        n \in MaxRetriesInputs}

NewCall == [pc |-> "start", result |-> NoResult, requests |-> 0,
            history |-> <<>>, seen |-> {}]

ConcurrentInit ==
    /\ env = ""
    /\ opts \in ConcurrentOptions
    /\ client = applyAll(DefaultClient(env), opts)
    /\ wire = NoWire
    /\ bodyReader = NoReader
    /\ callerHandle = Handle("caller", 0)
    /\ op = "ListJobs"
    /\ input = [none |-> TRUE]
    /\ given = input
    /\ ctx = "live"
    /\ pc = "start"
    /\ attempt = 0
    /\ lastErr = NoErr
    /\ envelope = NoEnvelope
    /\ timer = NoTimer
    /\ result = NoResult
    /\ requests = 0
    /\ doCalls = 0
    /\ waits = 0
    /\ outcomes = NoOutcomes
    /\ cancelled = NotCancelled
    /\ calls = [k \in CallIds |-> NewCall]
    /\ frames = [k \in CallIds |-> [attempt |-> 0, lastErr |-> NoErr]]

\* what the concurrent calls leave alone: the one-call state and the client
ConcurrentFrame ==
    UNCHANGED <<given, callerHandle, bodyReader, opts, env, wire, client, op, input, ctx, pc, attempt, lastErr, envelope, timer,
                result, requests, doCalls, waits, outcomes, cancelled>>

\* the call k returns res; seen keeps the client configurations it has read
CallFinish(k, res, event) ==
    calls' = [calls EXCEPT ![k].pc = "done", ![k].result = res,
                           ![k].history = @ \o event,
                           ![k].seen = @ \cup {client}]

\* lines 152-168: the credential check, then the locals are initialised
CallInvoke(k) ==
    /\ calls[k].pc = "start"
    /\ IF credentialMissing(client)
       THEN /\ CallFinish(k, ValidationError("apiKey", -1, "API key is required"), <<>>)
            /\ UNCHANGED frames
       ELSE /\ calls' = [calls EXCEPT ![k].pc = "loop", ![k].seen = @ \cup {client}]
            /\ frames' = [frames EXCEPT ![frame(k)] = [attempt |-> 0, lastErr |-> NoErr]]
    /\ ConcurrentFrame

\* lines 168-197: the loop test, the backoff select of a retry (won by the
\* timer or by the call's own context), the request built and handed to Do
CallLoop(k) ==
    /\ calls[k].pc = "loop"
    /\ LET f == frames[frame(k)]
       IN  IF ~loopCondition(client, f.attempt)
           THEN CallFinish(k, RetryError(client.maxRetries + 1, f.lastErr), <<>>)
           ELSE \/ /\ f.attempt > 0
                   /\ CallFinish(k, CtxErr("canceled"), <<[type |-> "done"]>>)
                \/ IF urlParses(client.baseURL)
                   THEN calls' = [calls EXCEPT ![k].pc = "sending",
                                               ![k].requests = @ + 1,
                                               ![k].seen = @ \cup {client}]
                   ELSE CallFinish(k, PlainError("failed to create request"), <<>>)
    /\ UNCHANGED frames
    /\ ConcurrentFrame

\* lines 206-222: Do returns the response to the request of the call k
CallRespond(k, status) ==
    /\ calls[k].pc = "sending"
    /\ LET event == [type |-> "response", status |-> status]
           apiErr == parseErrorResponse([StatusCode |-> status, body |-> UnparseableBody])
       IN  IF isSuccessStatus(status)
           THEN CallFinish(k, handler("json", TRUE), <<event>>) /\ UNCHANGED frames
           ELSE IF isRetryableStatus(status)
           THEN /\ frames' = [frames EXCEPT ![frame(k)] =
                                 [attempt |-> @.attempt + 1, lastErr |-> apiErr]]
                /\ calls' = [calls EXCEPT ![k].pc = "loop", ![k].history = @ \o <<event>>]
           ELSE CallFinish(k, apiErr, <<event>>) /\ UNCHANGED frames
    /\ ConcurrentFrame

\* lines 198-204: Do returns an error to the call k
CallTransportFail(k, err) ==
    /\ calls[k].pc = "sending"
    /\ LET event == [type |-> "failure", err |-> err]
           netErr == NetworkError("request failed", err)
       IN  IF isRetryableError(err)
           THEN /\ frames' = [frames EXCEPT ![frame(k)] =
                                 [attempt |-> @.attempt + 1, lastErr |-> netErr]]
                /\ calls' = [calls EXCEPT ![k].pc = "loop", ![k].history = @ \o <<event>>]
           ELSE /\ frames' = [frames EXCEPT ![frame(k)].lastErr = netErr]
                /\ CallFinish(k, netErr, <<event>>)
    /\ ConcurrentFrame

ConcurrentStatuses == {200, 404, 429, 503}
ConcurrentFailures == {ErrConnRefused, ErrTLS}

ConcurrentNext ==
    \/ \E k \in CallIds : CallInvoke(k)
    \/ \E k \in CallIds : CallLoop(k)
    \/ \E k \in CallIds, s \in ConcurrentStatuses : CallRespond(k, s)
    \/ \E k \in CallIds, e \in ConcurrentFailures : CallTransportFail(k, e)

SpecConcurrent == ConcurrentInit /\ [][ConcurrentNext]_vars

---------------------------------------------------------------------------
(* Vocabulary of the properties *)

Returned == pc = "done"

HasCredential == client.apiKey # ""

\* the facade's own check accepts the argument (and the facade does not crash)
InputAccepted == ~facadePanics(op, input) /\ argError(op, input) = NoErr

\* every Do call so far was answered by a response with a retried status
AllAnsweredRetried ==
    /\ outcomes.count > 0
    /\ outcomes.priorRetryableStatus
    /\ outcomes.last.type = "response"
    /\ outcomes.last.status \in RetriedStatuses

\* the context was already done when the first Do call was entered
DoneBeforeFirstSend == cancelled.fired /\ cancelled.doCalls = 0

---------------------------------------------------------------------------
(* Properties *)

\* C1: with maxRetries = N >= 0 and a credential, when every attempt is
\* answered with a status in {429, 502, 503, 504} (and the context is never
\* cancelled), the finished call has sent exactly N+1 requests and returns a
\* RetryError with Attempts = N+1 whose LastErr is the APIError built from the
\* last response; while it runs it never sends more than N+1 requests.
C1_RetryExhaustedAfterNPlus1 ==
    (client.maxRetries >= 0 /\ HasCredential /\ AllAnsweredRetried /\ ctx = "live") =>
        /\ requests <= client.maxRetries + 1
        /\ requests = outcomes.count + (IF pc = "sending" THEN 1 ELSE 0)
        /\ Returned =>
              /\ requests = client.maxRetries + 1
              /\ result.kind = "Retry"
              /\ result.Attempts = client.maxRetries + 1
              /\ result.LastErr = outcomes.last.err
              /\ result.LastErr.kind = "API"
              /\ result.LastErr.StatusCode = outcomes.last.status

C1_Witness ==
    /\ Returned
    /\ client.maxRetries = 2
    /\ AllAnsweredRetried
    /\ requests = 3
    /\ result.kind = "Retry"
    /\ result.Attempts = 3
    /\ result.LastErr.kind = "API"
    /\ result.LastErr.StatusCode = 503

C3_ClientErrorsReturnAtOnce ==
    (/\ outcomes.count = 1
     /\ outcomes.last.type = "response"
     /\ outcomes.last.status \in {400, 401, 403, 404}) =>
        /\ Returned
        /\ requests = 1
        /\ doCalls = 1
        /\ waits = 0
        /\ outcomes.last.status = 400 => IsBadRequest(result)
        /\ outcomes.last.status = 401 => IsUnauthorized(result)
        /\ outcomes.last.status = 403 => IsForbidden(result)
        /\ outcomes.last.status = 404 => IsNotFound(result)

C3_Witness ==
    /\ Returned
    /\ client.maxRetries = 2
    /\ outcomes.count = 1
    /\ outcomes.last.type = "response"
    /\ outcomes.last.status = 403
    /\ requests = 1
    /\ IsForbidden(result)
    /\ ~IsNotFound(result)

C5_InvalidInputGivesValidationError ==
    (Returned /\ ~InputAccepted) =>
        /\ result.kind = "Validation"
        /\ doCalls = 0
        /\ requests = 0
        /\ waits = 0

\* C6 (as claimed): on a client with an empty credential every operation, with
\* any input, fails with a ValidationError for field apiKey and sends nothing.
C6_Original ==
    (Returned /\ ~HasCredential) =>
        /\ result.kind = "Validation"
        /\ result.Field.name = "apiKey"
        /\ requests = 0

\* C6 (amended): on a client with an empty credential no call ever sends a
\* request or waits; a call whose input the facade accepts returns the
\* ValidationError for field apiKey, and a call whose input the facade rejects
\* returns the ValidationError of that input field instead.
C6_MissingCredential ==
    ~HasCredential =>
        /\ requests = 0
        /\ doCalls = 0
        /\ waits = 0
        /\ pc \in {"start", "done"}
        /\ (Returned /\ InputAccepted) =>
              result = ValidationError("apiKey", -1, "API key is required")
        /\ (Returned /\ ~InputAccepted /\ ~facadePanics(op, input)) =>
              /\ result.kind = "Validation"
              /\ result = argError(op, input)
              /\ result.Field.name # "apiKey"

C6_Witness ==
    /\ Returned
    /\ ~HasCredential
    /\ op = "Screenshot"
    /\ InputAccepted
    /\ result.kind = "Validation"
    /\ result.Field.name = "apiKey"
    /\ requests = 0

\* C7 (as claimed): every error a call returns is one of the five typed kinds
\* Validation, API, Network, Timeout, Retry-Exhausted.
C7_EveryErrorIsTyped ==
    (Returned /\ result.kind \notin {"ok", "panic"}) => result.kind \in TypedKinds

\* C8 (as claimed): a returned RetryError always has a cause, and the cause is
\* the error recorded by the final attempt of the call.
C8_RetryErrorWrapsLastAttempt ==
    (Returned /\ result.kind = "Retry") =>
        /\ result.LastErr # NoErr
        /\ outcomes.count > 0
        /\ result.LastErr = outcomes.last.err

\* C9: when the cancellation fires while the call is blocked in a backoff
\* wait, the call sends no further request, does not complete the wait, and
\* returns the context's error.
C9_CancelDuringBackoffAborts ==
    (cancelled.fired /\ cancelled.inWait) =>
        /\ requests = cancelled.requests
        /\ doCalls = cancelled.doCalls
        /\ waits = cancelled.waits
        /\ pc \in {"waiting", "done"}
        /\ Returned => result = CtxErr(ctx)

C9_Witness ==
    /\ Returned
    /\ cancelled.fired
    /\ cancelled.inWait
    /\ attempt < client.maxRetries
    /\ result = CtxErr("canceled")
    /\ requests = 1

\* the errors present in the state: the returned one, the executor's lastErr,
\* and the cause a returned RetryError wraps
ErrorsInState ==
    {e \in {result, lastErr} : e.kind \notin {"none", "ok", "panic"}}
        \cup (IF result.kind = "Retry" THEN {result.LastErr} ELSE {})

\* C10: each status predicate is true of an error exactly when the error is
\* itself an APIError with status 400, 401, 403, 404, 429, 500..599; it is
\* false of every other error, a RetryError wrapping an APIError included.
C10_StatusPredicates ==
    \A e \in ErrorsInState :
        /\ IsBadRequest(e) <=> (e.kind = "API" /\ e.StatusCode = 400)
        /\ IsUnauthorized(e) <=> (e.kind = "API" /\ e.StatusCode = 401)
        /\ IsForbidden(e) <=> (e.kind = "API" /\ e.StatusCode = 403)
        /\ IsNotFound(e) <=> (e.kind = "API" /\ e.StatusCode = 404)
        /\ IsRateLimited(e) <=> (e.kind = "API" /\ e.StatusCode = 429)
        /\ IsServerError(e) <=> (e.kind = "API" /\ e.StatusCode \in 500..599)

C10_Witness ==
    /\ Returned
    /\ result.kind = "Retry"
    /\ result.LastErr.kind = "API"
    /\ result.LastErr.StatusCode = 429
    /\ IsRateLimited(result.LastErr)
    /\ ~IsRateLimited(result)
    /\ ~IsServerError(result)

\* the call ran with a live context and ended on a response with the status s
FailedOnStatus(s) ==
    /\ Returned
    /\ ctx = "live"
    /\ outcomes.last.type = "response"
    /\ outcomes.last.status = s
    /\ result.kind # "ok"

\* C11 (as claimed): when a call fails because the server answered 429, the
\* error the operation returns satisfies IsRateLimited, and when it fails
\* because the server answered with a 5xx status, the error it returns
\* satisfies IsServerError.
C11_StatusFailuresAreClassified ==
    /\ FailedOnStatus(429) => IsRateLimited(result)
    /\ \A s \in {500, 502, 503, 504, 599} : FailedOnStatus(s) => IsServerError(result)

\* the last Do call failed with a transport error that is a timeout: the
\* transport's own timeout or the deadline of the context
FailedOnDeadline ==
    /\ Returned
    /\ outcomes.last.type = "failure"
    /\ outcomes.last.err.Cause.timeout

\* C12 (as claimed): a request that exceeds its deadline makes the call return
\* an error of kind Timeout whose cause is the transport's timeout error.
C12_DeadlineSurfacesAsTimeout ==
    FailedOnDeadline =>
        /\ IsTimeoutError(result)
        /\ result.Cause = outcomes.last.err.Cause

\* the backoff of line 171 has been computed for the attempt
BackoffComputed == pc = "waiting" /\ timer.selected = "none" /\ attempt >= 1

\* C13 (as claimed): for every attempt n >= 1 and every jitter draw the wait
\* never exceeds retryWaitMax, and the wait for attempt 1 is strictly less
\* than 2 * retryWaitMin.
C13_Original ==
    BackoffComputed =>
        /\ timer.wait <= client.retryWaitMax
        /\ attempt = 1 => timer.wait < 2 * client.retryWaitMin

\* C13 (amended): for every attempt n >= 1 and every jitter draw the wait
\* never exceeds retryWaitMax; the wait for attempt 1 is strictly less than
\* 2 * retryWaitMin when retryWaitMin > 0, and is 0 when retryWaitMin = 0.
C13_BackoffWithinBounds ==
    BackoffComputed =>
        /\ timer.wait <= client.retryWaitMax
        /\ (attempt = 1 /\ client.retryWaitMin > 0) =>
               timer.wait < 2 * client.retryWaitMin
        /\ (attempt = 1 /\ client.retryWaitMin = 0) => timer.wait = 0

\* attempt 1 with retryWaitMin 8: the jittered wait 9, under the cap
C13_Witness ==
    /\ BackoffComputed
    /\ attempt = 1
    /\ client.retryWaitMin = 8
    /\ client.retryWaitMax = 20
    /\ timer.wait = 9

\* the validator of the operation o has run on the record
Validated(o) == Returned /\ op = o

Accepted == result = NoErr
Rejected == result.kind = "Validation"

\* a value is unset (0) or inside [lo, hi]
UnsetOrWithin(v, lo, hi) == v = 0 \/ (v >= lo /\ v <= hi)

WellFormedUrl(u) ==
    /\ u # EmptyStr
    /\ \/ (Len(u) >= 7 /\ SubSeq(u, 1, 7) = <<"h", "t", "t", "p", ":", "/", "/">>)
       \/ (Len(u) >= 8 /\ SubSeq(u, 1, 8) = <<"h", "t", "t", "p", "s", ":", "/", "/">>)

\* C14: validateScreenshotRequest accepts a record exactly when it is not nil,
\* its URL is not empty and begins with http:// or https://, and quality,
\* delay, timeout and (of a viewport that is present) width, height and
\* deviceScaleFactor are each 0 or inside [1,100], [0,30000], [1000,60000],
\* [100,4096], [100,4096], [1,3]; every other record gets a ValidationError.
C14_ScreenshotAcceptance ==
    Validated("Screenshot") =>
        /\ Accepted \/ Rejected
        /\ Accepted <=>
              IF input.isNil THEN FALSE
              ELSE /\ WellFormedUrl(input.URL)
                   /\ UnsetOrWithin(input.Quality, 1, 100)
                   /\ UnsetOrWithin(input.Delay, 0, 30000)
                   /\ UnsetOrWithin(input.Timeout, 1000, 60000)
                   /\ IF input.Viewport.isNil THEN TRUE
                      ELSE /\ UnsetOrWithin(input.Viewport.Width, 100, 4096)
                           /\ UnsetOrWithin(input.Viewport.Height, 100, 4096)
                           /\ UnsetOrWithin(input.Viewport.DeviceScaleFactor, 1, 3)

\* quality 0 (unset) is accepted next to a viewport at its upper limits
C14_Witness ==
    /\ Validated("Screenshot")
    /\ Accepted
    /\ ~input.isNil
    /\ input.Quality = 0
    /\ input.Timeout = 60000
    /\ ~input.Viewport.isNil
    /\ input.Viewport.Width = 4096
    /\ input.Viewport.Height = 100
    /\ input.Viewport.DeviceScaleFactor = 3

\* C15 (as claimed): validateComposeRequest accepts a record only if it has a
\* non-empty capture list, or a URL together with at least one variant.
C15_Original ==
    (Validated("Compose") /\ Accepted) =>
        /\ ~input.isNil
        /\ \/ Len(input.Captures) > 0
           \/ (input.URL # EmptyStr /\ input.Variants >= 1)

\* C15 (amended): validateComposeRequest accepts a record only if it has a
\* non-empty capture list or a non-empty URL; a record with no captures is
\* rejected when its URL is empty and accepted when it has a URL, with or
\* without variants (at most 20 of them).
C15_ComposeNeedsCapturesOrUrl ==
    Validated("Compose") =>
        /\ Accepted \/ Rejected
        /\ Accepted =>
              /\ ~input.isNil
              /\ Len(input.Captures) > 0 \/ input.URL # EmptyStr
        /\ (~input.isNil /\ Len(input.Captures) = 0) =>
              (Accepted <=> (input.URL # EmptyStr /\ input.Variants <= 20))

\* a URL alone, with no capture and no variant, is accepted
C15_Witness ==
    /\ Validated("Compose")
    /\ Accepted
    /\ ~input.isNil
    /\ Len(input.Captures) = 0
    /\ input.URL = UrlHttps
    /\ input.Variants = 0

\* the 0-based index of the first entry of the list whose URL is empty or
\* does not begin with http:// or https:// (the list has such an entry)
FirstOffending(items) ==
    (CHOOSE i \in 1..Len(items) :
        /\ ~WellFormedUrl(items[i].URL)
        /\ \A k \in 1..(i - 1) : WellFormedUrl(items[k].URL)) - 1

\* C17: validateBulkRequest accepts a record exactly when it is not nil, has
\* between 1 and 100 entries, and every entry's URL is not empty and begins
\* with http:// or https://; a record rejected for an entry gets the
\* ValidationError that names the index of the first offending entry.
C17_BulkAcceptance ==
    Validated("CreateBulkJob") =>
        /\ Accepted \/ Rejected
        /\ Accepted <=>
              IF input.isNil THEN FALSE
              ELSE /\ Len(input.URLs) >= 1
                   /\ Len(input.URLs) <= 100
                   /\ \A i \in 1..Len(input.URLs) : WellFormedUrl(input.URLs[i].URL)
        /\ IF input.isNil THEN TRUE
           ELSE (/\ Len(input.URLs) >= 1
                 /\ Len(input.URLs) <= 100
                 /\ \E i \in 1..Len(input.URLs) : ~WellFormedUrl(input.URLs[i].URL)) =>
                    result.Field = [name |-> "urls[%d].url",
                                    index |-> FirstOffending(input.URLs)]

\* 100 entries, the 7th and the 100th offending: index 6 is named
C17_Witness ==
    /\ Validated("CreateBulkJob")
    /\ Rejected
    /\ ~input.isNil
    /\ Len(input.URLs) = 100
    /\ ~WellFormedUrl(input.URLs[100].URL)
    /\ result.Field.index = 6

\* C18: validateCreateScheduleRequest accepts a record exactly when it is not
\* nil, the name is not empty and at most 255 bytes long, the URL is not empty
\* and begins with http:// or https://, the schedule expression is not empty,
\* and retentionDays is 0 or inside [1,365].
C18_ScheduleAcceptance ==
    Validated("CreateSchedule") =>
        /\ Accepted \/ Rejected
        /\ Accepted <=>
              IF input.isNil THEN FALSE
              ELSE /\ input.Name # EmptyStr
                   /\ Len(input.Name) <= 255
                   /\ WellFormedUrl(input.URL)
                   /\ input.Schedule # EmptyStr
                   /\ UnsetOrWithin(input.RetentionDays, 1, 365)

\* a name of exactly 255 bytes and 365 days of retention are accepted
C18_Witness ==
    /\ Validated("CreateSchedule")
    /\ Accepted
    /\ ~input.isNil
    /\ Len(input.Name) = 255
    /\ input.RetentionDays = 365

IdentifierOperations ==
    {"GetJob", "GetJobResult", "CancelJob", "GetBulkJob", "CancelBulkJob",
     "GetComposeJob", "GetSchedule", "UpdateSchedule", "DeleteSchedule",
     "PauseSchedule", "ResumeSchedule", "TriggerSchedule", "GetScheduleHistory"}

\* C19: every operation that takes an identifier, called with the empty
\* identifier, returns a ValidationError for the identifier; no path is built,
\* no request is sent and no wait is made, with or without a credential.
C19_EmptyIdRejectedFirst ==
    /\ IdOps = IdentifierOperations
    /\ (op \in IdentifierOperations /\ input.id = EmptyStr) =>
          /\ envelope = NoEnvelope
          /\ requests = 0
          /\ doCalls = 0
          /\ waits = 0
          /\ pc \in {"start", "done"}
          /\ Returned =>
                /\ result.kind = "Validation"
                /\ result.Field.name \in {"id", "jobId"}

\* UpdateSchedule("", nil) on a client without a credential: the identifier
\* is what the error names
C19_Witness ==
    /\ Returned
    /\ op = "UpdateSchedule"
    /\ input.id = EmptyStr
    /\ input.req.isNil
    /\ ~HasCredential
    /\ result = ValidationError("id", -1, "schedule ID is required")
    /\ envelope = NoEnvelope
    /\ requests = 0

\* what a call running alone on the configuration c returns when the events
\* h (responses, transport failures, its context being done during a wait) are
\* what it meets, n of them already consumed and last the error of the latest
RECURSIVE RunAlone(_, _, _, _)
RunAlone(c, h, n, last) ==
    IF n > c.maxRetries THEN RetryError(c.maxRetries + 1, last)
    ELSE IF h = <<>>
    THEN IF urlParses(c.baseURL) THEN NoResult
         ELSE PlainError("failed to create request")
    ELSE LET e == Head(h)
         IN  IF e.type = "done" THEN CtxErr("canceled")
             ELSE IF e.type = "response"
             THEN LET apiErr == APIError(e.status, "", StatusText(e.status), "")
                  IN  IF e.status \in 200..299 THEN Success("decoded")
                      ELSE IF e.status \in RetriedStatuses
                      THEN RunAlone(c, Tail(h), n + 1, apiErr)
                      ELSE apiErr
             ELSE LET netErr == NetworkError("request failed", e.err)
                  IN  IF e.err.timeout \/ e.err.phrases # {}
                      THEN RunAlone(c, Tail(h), n + 1, netErr)
                      ELSE netErr

Alone(c, h) ==
    IF c.apiKey = "" THEN ValidationError("apiKey", -1, "API key is required")
    ELSE RunAlone(c, h, 0, NoErr)

\* the requests of a call that were answered, by a response or a failure
Answered(h) == Cardinality({i \in 1..Len(h) : h[i].type # "done"})

\* C20: with several calls running concurrently on one client, under every
\* interleaving, every call reads one and the same client configuration (no
\* call changes it), sends at most maxRetries + 1 requests, each of its
\* requests being answered to it alone, and returns exactly what a call
\* running alone would return on the responses to its own requests.
C20_CallsAreIndependent ==
    (calls # NoCalls) =>
        \A k \in CallIds :
            /\ calls[k].seen \subseteq {client}
            /\ calls[k].requests <= client.maxRetries + 1
            /\ calls[k].requests =
                   Answered(calls[k].history) + (IF calls[k].pc = "sending" THEN 1 ELSE 0)
            /\ calls[k].pc = "done" =>
                   calls[k].result = Alone(client, calls[k].history)

\* two finished calls on a client with maxRetries = 2: one exhausted its three
\* requests on 503, the other succeeded on its second
C20_Witness ==
    /\ calls # NoCalls
    /\ client.maxRetries = 2
    /\ calls["a"].pc = "done"
    /\ calls["b"].pc = "done"
    /\ calls["a"].result.kind = "Retry"
    /\ calls["a"].result.LastErr.kind = "API"
    /\ calls["a"].result.LastErr.StatusCode = 503
    /\ calls["a"].requests = 3
    /\ calls["b"].result.kind = "ok"
    /\ calls["b"].requests = 2
    /\ calls["b"].history[1] = [type |-> "failure", err |-> ErrConnRefused]

\* the last Do call was answered by a response
LastIsResponse == outcomes.count > 0 /\ outcomes.last.type = "response"

\* the last Do call failed in the transport
LastIsFailure == outcomes.count > 0 /\ outcomes.last.type = "failure"

\* C28: a response whose status is neither 2xx nor one of 429, 502, 503, 504,
\* on whichever attempt it arrives, ends the call at once: the call returns
\* the APIError built from that response, not wrapped in a RetryError, and no
\* further request is sent.
C28_OtherStatusesReturnAtOnce ==
    (/\ LastIsResponse
     /\ outcomes.last.status \notin 200..299
     /\ outcomes.last.status \notin {429, 502, 503, 504}) =>
        /\ Returned
        /\ result.kind = "API"
        /\ result.StatusCode = outcomes.last.status
        /\ result = outcomes.last.err
        /\ requests = outcomes.count
        /\ doCalls = outcomes.count

\* a 500 answered to the third attempt, after two retried outcomes
C28_Witness ==
    /\ Returned
    /\ LastIsResponse
    /\ outcomes.last.status = 500
    /\ outcomes.count = 3
    /\ requests = 3
    /\ client.maxRetries = 2
    /\ result.kind = "API"

\* the failure is one the executor retries: a timeout, or its text names a
\* refused or reset connection or an unknown host
RetryableFailure(e) ==
    e.timeout \/ e.phrases \cap {"connection refused", "connection reset",
                                 "no such host", "timeout"} # {}

\* C29: a transport failure is wrapped as a NetworkError.  When it is not
\* retryable the call returns that NetworkError at once and nothing more is
\* sent.  When it is retryable it becomes the last error: if it was the final
\* attempt the call returns the RetryError that wraps it, otherwise the call
\* goes on to the next attempt (which only the context ending during the
\* backoff wait prevents).
C29_TransportFailures ==
    LastIsFailure =>
        LET e == outcomes.last.err.Cause
            wrapped == NetworkError("request failed", e)
        IN  /\ outcomes.last.err = wrapped
            /\ lastErr = wrapped
            /\ doCalls <= outcomes.count + 1
            /\ ~RetryableFailure(e) =>
                  /\ Returned
                  /\ result = wrapped
                  /\ doCalls = outcomes.count
            /\ (RetryableFailure(e) /\ outcomes.count = client.maxRetries + 1) =>
                  /\ pc \in {"loop", "done"}
                  /\ doCalls = outcomes.count
                  /\ Returned => result = RetryError(client.maxRetries + 1, wrapped)
            /\ (RetryableFailure(e) /\ outcomes.count <= client.maxRetries) =>
                  /\ attempt = outcomes.count
                  /\ Returned => (ctx # "live" /\ result = CtxErr(ctx))
                  /\ (pc = "sending") => doCalls = outcomes.count + 1

\* a refused connection on the final attempt, wrapped by the RetryError
C29_Witness ==
    /\ Returned
    /\ LastIsFailure
    /\ outcomes.last.err.Cause = ErrConnRefused
    /\ outcomes.count = 3
    /\ client.maxRetries = 2
    /\ result.kind = "Retry"
    /\ result.LastErr.kind = "Network"
    /\ result.LastErr.Cause = ErrConnRefused

\* C30: a 2xx response ends the call with the result of the response handler:
\* the payload when the body can be read or decoded (or is not read at all),
\* the reader's or decoder's failure otherwise; no request is sent after the
\* 2xx response and no wait is made.
C30_SuccessHandledOnce ==
    (LastIsResponse /\ outcomes.last.status \in 200..299) =>
        /\ Returned
        /\ requests = outcomes.count
        /\ doCalls = outcomes.count
        /\ waits = outcomes.count - 1
        /\ pc # "waiting"
        /\ (outcomes.last.readable \/ envelope.mode = "discard") => result.kind = "ok"
        /\ (~outcomes.last.readable /\ envelope.mode = "json") =>
               result = PlainError("decode failed")
        /\ (~outcomes.last.readable /\ envelope.mode = "binary") =>
               result = PlainError("read failed")

\* a 200 whose body does not decode, on the first attempt of a client that
\* could retry twice: the failure is returned after that one request
C30_Witness ==
    /\ Returned
    /\ LastIsResponse
    /\ outcomes.last.status = 200
    /\ ~outcomes.last.readable
    /\ client.maxRetries = 2
    /\ requests = 1
    /\ result = PlainError("decode failed")

\* the response has been parsed into an API error
Parsed == pc = "done" /\ result.kind = "API"

\* C21: the API error built from a non-2xx response carries the status code of
\* the response; its message is the envelope's message when that is not
\* empty, else the envelope's error when that is not empty, else the HTTP
\* status text; when the body is not the JSON envelope the message is the
\* status text and the code and details are empty.
C21_ErrorEnvelopePrecedence ==
    pc = "done" =>
        /\ result.kind = "API"
        /\ result.StatusCode = input.StatusCode
        /\ input.StatusCode \notin 200..299
        /\ (input.body.json /\ input.body.message # "") =>
               result.Message = input.body.message
        /\ (input.body.json /\ input.body.message = "" /\ input.body.error # "") =>
               result.Message = input.body.error
        /\ (input.body.json /\ input.body.message = "" /\ input.body.error = "") =>
               result.Message = StatusText(input.StatusCode)
        /\ ~input.body.json =>
               /\ result.Message = StatusText(input.StatusCode)
               /\ result.Code = ""
               /\ result.Details = ""

\* a 400 whose envelope has both fields: the message field is the one kept
C21_Witness ==
    /\ Parsed
    /\ input.StatusCode = 400
    /\ input.body.json
    /\ input.body.message = "m"
    /\ input.body.error = "e"
    /\ result.Message = "m"

\* Header.Get: the value of the header line of that name, "" when there is none
Get(header, name) ==
    IF \E h \in header : h[1] = name
    THEN (CHOOSE h \in header : h[1] = name)[2]
    ELSE ""

\* the header lines of that name
Lines(header, name) == {h \in header : h[1] = name}

\* the operations whose facade hands a request record to the executor as body
SendsRecord(o) == OpTable[o].arg \in {"screenshot", "bulk", "compose", "schedule", "idreq"}

\* C22: every request put on the wire, the first and every retry, carries the
\* credential in X-API-Key and never in Authorization, the configured user
\* agent, Accept: application/json, and Content-Type: application/json exactly
\* when the operation has a request body.
C22_RequestHeaders ==
    /\ (requests > 0) = (wire # {})
    /\ \A r \in wire :
          /\ Lines(r.header, "X-API-Key") = {<<"X-API-Key", client.apiKey>>}
          /\ client.apiKey # ""
          /\ Lines(r.header, "Authorization") = {}
          /\ Get(r.header, "User-Agent") = client.userAgent
          /\ Lines(r.header, "Accept") = {<<"Accept", "application/json">>}
          /\ Lines(r.header, "Content-Type") =
                 (IF SendsRecord(op) THEN {<<"Content-Type", "application/json">>} ELSE {})
          /\ r.hasBody = SendsRecord(op)
          /\ r.method = OpTable[op].method

\* a retried request without a body, sent twice by a client with its own user agent
C22_Witness ==
    /\ requests = 2
    /\ client.userAgent = "custom"
    /\ ~SendsRecord(op)
    /\ \E r \in wire : /\ Get(r.header, "User-Agent") = "custom"
                       /\ Get(r.header, "Content-Type") = ""
                       /\ Get(r.header, "X-API-Key") = "key"

\* the position in opts of the last option with one of these names, 0 if none
LastOf(names) ==
    LET S == {i \in 1..Len(opts) : opts[i].name \in names}
    IN  IF S = {} THEN 0 ELSE CHOOSE i \in S : \A j \in S : j <= i

\* the number of "/" bytes the string ends in
RECURSIVE TrailingSlashes(_)
TrailingSlashes(u) ==
    IF Len(u) > 0 /\ u[Len(u)] = "/"
    THEN 1 + TrailingSlashes(SubSeq(u, 1, Len(u) - 1))
    ELSE 0

\* the base URL the constructor was configured with
ConfiguredBase == IF LastOf({"WithBaseURL"}) = 0 THEN DefaultBaseURL
                  ELSE opts[LastOf({"WithBaseURL"})].url

\* NewClient has returned a client
Constructed == pc \notin {"constructing", "crashed"}

\* C23 as stated: whenever the configured base URL ends in "/", every request
\* URL has exactly one "/" between the base and the rest of the path.
C23_Original ==
    \A r \in wire :
        TrailingSlashes(ConfiguredBase) >= 1 => TrailingSlashes(r.url.head) = 1

\* C23: a configured base URL that ends in "/" is stored without that one
\* trailing slash; when it ends in exactly one "/" every request URL has
\* exactly one "/" between the base and the rest of the path, and in general
\* as many as the configured base URL ended in.
C23_OneTrailingSlashStripped ==
    /\ (pc # "crashed" /\ TrailingSlashes(ConfiguredBase) >= 1) =>
          /\ client.baseURL = SubSeq(ConfiguredBase, 1, Len(ConfiguredBase) - 1)
          /\ TrailingSlashes(client.baseURL) = TrailingSlashes(ConfiguredBase) - 1
    /\ \A r \in wire :
          /\ TrailingSlashes(ConfiguredBase) <= 1 => TrailingSlashes(r.url.head) = 1
          /\ TrailingSlashes(ConfiguredBase) >= 1 =>
                 TrailingSlashes(r.url.head) = TrailingSlashes(ConfiguredBase)

\* a request sent by a client configured with a base URL ending in one slash
C23_Witness ==
    /\ pc = "sending"
    /\ TrailingSlashes(ConfiguredBase) = 1
    /\ \E r \in wire : r.url.head = HttpsPrefix \o <<"x", "/">>

\* C24: construction never fails, whatever the options: it always yields a
\* client and nothing crashes; an empty credential is accepted at construction
\* and rejected only by the first call, before anything is sent.
C24_ConstructionNeverFails ==
    /\ pc # "crashed"
    /\ (pc = "done" /\ client.apiKey = "") =>
          /\ result = ValidationError("apiKey", -1, "API key is required")
          /\ requests = 0

\* C25: whenever WithTimeout(t) is among the options given to the
\* constructor, the constructed client's transport timeout is t, whatever
\* other options are applied and in whatever order, set-transport-handle
\* among them.
C25_TimeoutOptionAlwaysWins ==
    \A i \in 1..Len(opts) :
        (opts[i].name = "WithTimeout" /\ Constructed) =>
            client.httpClient.Timeout = opts[i].n

\* the settings other than the transport handle and its timeout: each has its
\* default (the credential: the environment variable's value) until an option
\* naming it is applied, and then what the last such option gave it
NamedSettings ==
    LET k == LastOf({"WithAPIKey"})
        n == LastOf({"WithMaxRetries"})
        w == LastOf({"WithRetryWait"})
        u == LastOf({"WithUserAgent"})
    IN  /\ client.apiKey = (IF k = 0 THEN env ELSE opts[k].str)
        /\ client.baseURL = (IF TrailingSlashes(ConfiguredBase) >= 1
                             THEN SubSeq(ConfiguredBase, 1, Len(ConfiguredBase) - 1)
                             ELSE ConfiguredBase)
        /\ client.maxRetries = (IF n = 0 THEN 3 ELSE opts[n].n)
        /\ client.retryWaitMin = (IF w = 0 THEN 8 ELSE opts[w].n)
        /\ client.retryWaitMax = (IF w = 0 THEN 240 ELSE opts[w].m)
        /\ client.userAgent = (IF u = 0 THEN "allscreenshots-sdk-go/1.0.0" ELSE opts[u].str)

\* C26: with no options the client has the production base URL, a timeout of
\* 120 s, maxRetries 3, retry waits of 1 s and 30 s and the credential of the
\* environment variable; set-credential overrides that credential, also with
\* the empty string; every other option changes only the setting it names, so
\* that the timeout is 120 s until set-timeout is applied and then what
\* set-timeout last gave it.
C26_DefaultsAndOverrides ==
    Constructed =>
        LET t == LastOf({"WithTimeout"})
        IN  /\ NamedSettings
            /\ client.httpClient.Timeout = (IF t = 0 THEN 960 ELSE opts[t].n)

\* C27: every constructed client has maxRetries >= 0 and
\* retryWaitMin <= retryWaitMax, whatever options were passed.
C27_ConfigurationInvariants ==
    Constructed =>
        /\ client.maxRetries >= 0
        /\ client.retryWaitMin <= client.retryWaitMax

\* C35 as stated: every call that returns without being cancelled has made
\* one wait fewer than the requests it sent.
C35_Original ==
    (Returned /\ ctx = "live") => waits = requests - 1

\* C35: a backoff wait happens immediately before every attempt except the
\* first and at no other point: none before attempt 0, none after the final
\* attempt before Retry-Exhausted is returned; a call that returns without
\* being cancelled has made one wait fewer than the requests it sent when it
\* sent at least one, and no wait when it sent none.
C35_WaitsBetweenAttempts ==
    /\ doCalls = 0 => waits = 0
    /\ pc = "sending" => waits = doCalls - 1
    /\ (pc = "waiting") => (attempt > 0 /\ waits = doCalls - 1 /\ waits = attempt - 1)
    /\ (Returned /\ doCalls > 0) => waits = doCalls - 1
    /\ (Returned /\ ctx = "live" /\ requests > 0) => waits = requests - 1
    /\ (Returned /\ ctx = "live" /\ requests = 0) => waits = 0

\* Retry-Exhausted after three requests and two waits
C35_Witness ==
    /\ Returned
    /\ ctx = "live"
    /\ result.kind = "Retry"
    /\ requests = 3
    /\ waits = 2

\* C36: a returned Retry-Exhausted error carries as attempt count the number
\* of HTTP requests the call sent, and that number is at least 1, whatever
\* maxRetries the options accepted.
C36_AttemptsCountRequests ==
    (Returned /\ result.kind = "Retry") =>
        /\ result.Attempts = requests
        /\ requests >= 1

\* the rules of screenshot validation in their fixed order, each with the
\* field it reports and whether the record breaks it
ScreenshotRules(req) ==
    IF req.isNil THEN << <<"request", TRUE>> >>
    ELSE << <<"request", FALSE>>,
            <<"url", ~WellFormedUrl(req.URL)>>,
            <<"quality", ~UnsetOrWithin(req.Quality, 1, 100)>>,
            <<"delay", ~UnsetOrWithin(req.Delay, 0, 30000)>>,
            <<"timeout", ~UnsetOrWithin(req.Timeout, 1000, 60000)>> >>
         \o (IF req.Viewport.isNil THEN <<>>
             ELSE << <<"viewport.width", ~UnsetOrWithin(req.Viewport.Width, 100, 4096)>>,
                     <<"viewport.height", ~UnsetOrWithin(req.Viewport.Height, 100, 4096)>>,
                     <<"viewport.deviceScaleFactor",
                       ~UnsetOrWithin(req.Viewport.DeviceScaleFactor, 1, 3)>> >>)

\* the positions of the rules the record breaks
Broken(req) == {i \in 1..Len(ScreenshotRules(req)) : ScreenshotRules(req)[i][2]}

\* C34: screenshot validation reports the first violated rule in the order
\* request-nil, url, quality, delay, timeout, viewport.width, viewport.height,
\* viewport.deviceScaleFactor, whatever later rules are violated as well, and a
\* rejected request is reported before any HTTP request is issued.
C34_FirstViolatedRuleReported ==
    (op \in {"Screenshot", "ScreenshotAsync"} /\ Returned /\ Broken(input) # {}) =>
        /\ result.kind = "Validation"
        /\ \E i \in Broken(input) :
              /\ \A j \in Broken(input) : i <= j
              /\ result.Field.name = ScreenshotRules(input)[i][1]
        /\ requests = 0
        /\ doCalls = 0
        /\ wire = {}

\* a record with a valid URL that breaks the quality rule and every later rule
C34_Witness ==
    /\ op = "Screenshot"
    /\ Returned
    /\ ~input.isNil
    /\ input.URL = UrlHttp
    /\ Cardinality(Broken(input)) = 6
    /\ result.kind = "Validation"
    /\ result.Field.name = "quality"
    /\ requests = 0

\* C39: for every configuration with 0 <= retryWaitMin <= retryWaitMax the
\* backoff wait is non-decreasing in the attempt number for every pair of
\* jitter draws: the wait computed for attempt n, whatever its draw, is at
\* most the wait for attempt n + 1, whatever the draw there.
C39_BackoffMonotone ==
    (/\ BackoffComputed
     /\ 0 <= client.retryWaitMin
     /\ client.retryWaitMin <= client.retryWaitMax) =>
        \A j \in 0..(JitterSteps - 1) :
            /\ timer.wait <= calculateBackoff(client, attempt + 1, j)
            /\ timer.wait >= 0

\* attempt 2 with retry waits 8 and 24: the jittered wait 18, below the
\* capped wait 24 of attempt 3
C39_Witness ==
    /\ BackoffComputed
    /\ attempt = 2
    /\ client.retryWaitMin = 8
    /\ client.retryWaitMax = 24
    /\ timer.wait = 18
    /\ calculateBackoff(client, 3, 0) = 24

\* the most requests and waits a call on this client may make
MostRequests == IF client.maxRetries >= 0 THEN client.maxRetries + 1 ELSE 0
MostWaits == IF client.maxRetries >= 0 THEN client.maxRetries ELSE 0

\* C31: every call terminates: when each HTTP exchange and each backoff wait
\* completes, the call returns, after at most maxRetries + 1 requests and at
\* most maxRetries backoff waits; no attempt with an index above maxRetries
\* is made.
C31_EveryCallTerminates ==
    /\ <>Returned
    /\ [](/\ requests <= MostRequests
          /\ doCalls <= MostRequests
          /\ waits <= MostWaits
          /\ (pc \in {"waiting", "sending"}) => attempt <= client.maxRetries)

\* a call that returned after using up all its requests and waits
C31_Witness ==
    /\ Returned
    /\ client.maxRetries = 2
    /\ requests = 3
    /\ waits = 2
    /\ attempt = 3

\* the cancellation or the deadline fired while the call was inside Do
SignalDuringExchange == cancelled.fired /\ cancelled.at = "sending"

\* C32: when the cancellation or deadline signal fires while the call waits
\* for the remote response, from then on no backoff wait runs to completion
\* and no HTTP request is sent by the call, whatever the retry waits (a zero
\* wait included) and however many attempts remain.
C32_SignalDuringExchangeAborts ==
    SignalDuringExchange =>
        /\ waits = cancelled.waits
        /\ requests = cancelled.requests

---------------------------------------------------------------------------
(* Request bodies on the wire *)

\* C33: every attempt of a call with a request body sends the complete,
\* freshly serialized body: no request on the wire carries an empty or
\* partly read body, and all attempts of the call carry the same bytes, the
\* serialization of the record the call holds.
C33_EveryAttemptSendsWholeBody ==
    OpTable[op].hasBody =>
        \A r \in wire : r.body # <<>> /\ r.body = Marshal(bodyOf(op, input))

\* a body operation that sent its body a second time after a retryable failure
C33_Witness ==
    /\ OpTable[op].hasBody
    /\ requests >= 2
    /\ bodyReader.read
    /\ \E r \in wire : r.body = Marshal(bodyOf(op, input))

---------------------------------------------------------------------------
(* The caller's request record *)

\* C37: no facade operation modifies the request record the caller passed:
\* at every point of Screenshot, ScreenshotAsync, CreateBulkJob, Compose,
\* ComposeAsync, CreateSchedule and UpdateSchedule the record is as it was
\* when the call was made.
C37_CallerRecordUntouched == SendsRecord(op) => input = given

---------------------------------------------------------------------------
(* State outside the client under construction *)

\* C38: constructing a client changes no state outside the new client: the
\* transport handle the caller supplied keeps the timeout the caller gave
\* it (and with it every earlier client holding that handle), for every
\* order of the options.
C38_CallerHandleKeepsTimeout == callerHandle = Handle("caller", 0)

=============================================================================
